---- MODULE Spec2Model ----
(***************************************************************************)
(* EPUB structural extraction engine (convex/utils/epub.ts).               *)
(*                                                                         *)
(* Text is a sequence of one-character strings, so that whitespace         *)
(* collapsing, trimming, case folding and diacritic stripping are computed *)
(* and not assumed.  A content document is a sequence of element nodes in  *)
(* document (pre-)order; each node carries its tag, its id, name and class *)
(* attributes, the index of its parent (0 is the document root) and the    *)
(* text node that opens it.                                                *)
(***************************************************************************)
EXTENDS Integers, Sequences, FiniteSets, TLC

\* ------------------------------------------------------------------------
\* Bounds of the model
\* ------------------------------------------------------------------------
MaxToc == 3
MaxFlow == 2
MaxCap == 3
MaxNodes == 2
MaxSegments == 3
MaxParagraphs == 401

\* ------------------------------------------------------------------------
\* Characters and strings
\* ------------------------------------------------------------------------
Uppers == <<"A", "B", "C", "D", "E", "F", "G", "H", "I", "J", "K", "L", "M",
            "N", "O", "P", "Q", "R", "S", "T", "U", "V", "W", "X", "Y", "Z",
            "Á", "É", "Í", "Ó", "Ú", "Ñ">>
Lowers == <<"a", "b", "c", "d", "e", "f", "g", "h", "i", "j", "k", "l", "m",
            "n", "o", "p", "q", "r", "s", "t", "u", "v", "w", "x", "y", "z",
            "á", "é", "í", "ó", "ú", "ñ">>

\* String.prototype.toLowerCase, one character
LowerChar(ch) ==
    IF \E i \in 1..Len(Uppers) : Uppers[i] = ch
    THEN Lowers[CHOOSE i \in 1..Len(Uppers) : Uppers[i] = ch]
    ELSE ch

\* normalize("NFD") followed by removal of \p{Diacritic}, one character
StripChar(ch) ==
    CASE ch = "á" -> "a"
      [] ch = "é" -> "e"
      [] ch = "í" -> "i"
      [] ch = "ó" -> "o"
      [] ch = "ú" -> "u"
      [] ch = "ñ" -> "n"
      [] ch = "Á" -> "A"
      [] ch = "É" -> "E"
      [] ch = "Í" -> "I"
      [] ch = "Ó" -> "O"
      [] ch = "Ú" -> "U"
      [] ch = "Ñ" -> "N"
      [] OTHER -> ch

\* the regular expression class \s
IsSpace(ch) == ch \in {" ", "\n", "\t"}

\* the regular expression class \d
IsDigit(ch) == ch \in {"0", "1", "2", "3", "4", "5", "6", "7", "8", "9"}

ToLowerCase(s) == [i \in 1..Len(s) |-> LowerChar(s[i])]

StripDiacritics(s) == [i \in 1..Len(s) |-> StripChar(s[i])]

\* replace(/\s+/g, " ")
CollapseWs(s) ==
    LET keep == {i \in 1..Len(s) : ~(IsSpace(s[i]) /\ i > 1 /\ IsSpace(s[i-1]))}
        RECURSIVE Build(_)
        Build(i) ==
            IF i > Len(s) THEN <<>>
            ELSE IF i \in keep
                 THEN <<IF IsSpace(s[i]) THEN " " ELSE s[i]>> \o Build(i + 1)
                 ELSE Build(i + 1)
    IN  Build(1)

\* String.prototype.trim
Trim(s) ==
    LET solid == {i \in 1..Len(s) : ~IsSpace(s[i])}
    IN  IF solid = {} THEN <<>>
        ELSE LET lo == CHOOSE i \in solid : \A j \in solid : i <= j
                 hi == CHOOSE i \in solid : \A j \in solid : i >= j
             IN  SubSeq(s, lo, hi)

\* replace(/\s+/g, " ").trim()
NormalizeWs(s) == Trim(CollapseWs(s))

StartsWith(s, p) == Len(p) <= Len(s) /\ SubSeq(s, 1, Len(p)) = p

\* String.prototype.includes
Includes(s, p) ==
    \E i \in 0..(Len(s) - Len(p)) : SubSeq(s, i + 1, i + Len(p)) = p

\* the text after the first k characters
Drop(s, k) == SubSeq(s, k + 1, Len(s))

\* ------------------------------------------------------------------------
\* PATH NORMALIZATION
\* ------------------------------------------------------------------------
DotSlash == <<".", "/">>
DotDotSlash == <<".", ".", "/">>
OebpsSlash == <<"o", "e", "b", "p", "s", "/">>
OpsSlash == <<"o", "p", "s", "/">>

RECURSIVE StripDotDot(_)
\* replace(/^(\.\.\/)+/g, "")
StripDotDot(s) ==
    IF StartsWith(s, DotDotSlash) THEN StripDotDot(Drop(s, 3)) ELSE s

\* replace(/^PREFIX/i, "")
StripPrefixNoCase(s, p) ==
    IF Len(p) <= Len(s) /\ ToLowerCase(SubSeq(s, 1, Len(p))) = p
    THEN Drop(s, Len(p)) ELSE s

\* the backslashes replaced before the prefixes are looked for
normalizePath_backslashFirst(href) ==
    IF href = <<>> THEN <<>>
    ELSE LET s0 == [i \in 1..Len(href) |-> IF href[i] = "\\" THEN "/" ELSE href[i]]
             s1 == IF StartsWith(s0, DotSlash) THEN Drop(s0, 2) ELSE s0
             s2 == StripDotDot(s1)
             s3 == StripPrefixNoCase(s2, OebpsSlash)
             s4 == StripPrefixNoCase(s3, OpsSlash)
         IN  ToLowerCase(s4)

normalizePath(href) ==
    IF href = <<>> THEN <<>>
    ELSE LET s1 == IF StartsWith(href, DotSlash) THEN Drop(href, 2) ELSE href
             s2 == StripDotDot(s1)
             s3 == StripPrefixNoCase(s2, OebpsSlash)
             s4 == StripPrefixNoCase(s3, OpsSlash)
             s5 == [i \in 1..Len(s4) |-> IF s4[i] = "\\" THEN "/" ELSE s4[i]]
         IN  ToLowerCase(s5)

getFilename(href) ==
    IF href = <<>> THEN <<>>
    ELSE LET normalized == normalizePath(href)
             slashes == {i \in 1..Len(normalized) : normalized[i] = "/"}
             last == IF slashes = {} THEN 0
                     ELSE CHOOSE i \in slashes : \A j \in slashes : i >= j
         IN  Drop(normalized, last)

\* String.prototype.split(sep)[k], k = 0 or 1 (undefined is the empty text)
SplitPart(s, sep, k) ==
    LET cuts == {i \in 1..Len(s) : s[i] = sep}
        first == IF cuts = {} THEN Len(s) + 1
                 ELSE CHOOSE i \in cuts : \A j \in cuts : i <= j
        later == {i \in cuts : i > first}
        second == IF later = {} THEN Len(s) + 1
                  ELSE CHOOSE i \in later : \A j \in later : i <= j
    IN  IF k = 0 THEN SubSeq(s, 1, first - 1)
        ELSE SubSeq(s, first + 1, second - 1)

\* ------------------------------------------------------------------------
\* TEXT NORMALIZATION
\* ------------------------------------------------------------------------
normalizeForDedup(value) ==
    ToLowerCase(Trim(CollapseWs(StripDiacritics(value))))

ChapterWord == <<"c", "h", "a", "p", "t", "e", "r", " ">>
CapituloWord == <<"c", "a", "p", "i", "t", "u", "l", "o", " ">>

NoNumMatch == [ok |-> FALSE, num |-> <<>>, rest |-> <<>>]

\* the index of the first character that is not a digit, 0 when none
FirstNonDigit(s) ==
    IF \A i \in 1..Len(s) : IsDigit(s[i]) THEN 0
    ELSE CHOOSE i \in 1..Len(s) : ~IsDigit(s[i]) /\ \A j \in 1..(i - 1) : IsDigit(s[j])

\* the group (.+) after \s* has taken what it can: the text from the first
\* character that is not white space on, or the last character when all of
\* afterDot is white space
RestGroup(afterDot) ==
    IF \A i \in 1..Len(afterDot) : IsSpace(afterDot[i])
    THEN Drop(afterDot, Len(afterDot) - 1)
    ELSE Drop(afterDot, (CHOOSE i \in 1..Len(afterDot) :
                            ~IsSpace(afterDot[i])
                            /\ \A j \in 1..(i - 1) : IsSpace(afterDot[j])) - 1)

\* the groups, given the digits and the text after the dot
NumMatchGroups(num, afterDot, rest) ==
    IF Len(afterDot) > 0 /\ \A i \in 1..Len(rest) : rest[i] # "\n"
    THEN [ok |-> TRUE, num |-> num, rest |-> rest]
    ELSE NoNumMatch

NumMatchAt(normalizedTitle, dot) ==
    IF dot > 1 /\ normalizedTitle[dot] = "."
    THEN NumMatchGroups(SubSeq(normalizedTitle, 1, dot - 1), Drop(normalizedTitle, dot),
                        RestGroup(Drop(normalizedTitle, dot)))
    ELSE NoNumMatch

\* normalizedTitle.match(/^(\d+)\.\s*(.+)$/): the record of the two groups,
\* or ok = FALSE when the title does not match
chapterNumMatch(normalizedTitle) == NumMatchAt(normalizedTitle, FirstNonDigit(normalizedTitle))

\* the numbered-chapter strategy, m the match of the title
NumberedMatch(normalizedPara, m) ==
    /\ m.ok
    /\ \/ normalizedPara = m.num
       \/ normalizedPara = ChapterWord \o m.num
       \/ normalizedPara = CapituloWord \o m.num
       \/ normalizedPara = m.rest

\* the strategies of textMatchesTitle on the two normalized texts
MatchesNormalized(normalizedPara, normalizedTitle) ==
    \/ normalizedPara = normalizedTitle
    \/ StartsWith(normalizedPara, normalizedTitle \o <<" ">>)
    \/ normalizedPara = normalizedTitle \o <<".">>
    \/ normalizedPara = normalizedTitle \o <<",">>
    \/ /\ Len(normalizedPara) < Len(normalizedTitle) + 15
       /\ Includes(normalizedPara, normalizedTitle)
    \/ NumberedMatch(normalizedPara, chapterNumMatch(normalizedTitle))

textMatchesTitle(paraText, tocTitle) ==
    MatchesNormalized(normalizeForDedup(paraText), normalizeForDedup(tocTitle))

\* ------------------------------------------------------------------------
\* Content documents
\* ------------------------------------------------------------------------
\* html[j].parent chain: a is a proper ancestor of node j
RECURSIVE IsAncestor(_, _, _)
IsAncestor(html, a, j) ==
    /\ j > 0
    /\ \/ html[j].parent = a
       \/ IsAncestor(html, a, html[j].parent)

\* the descendants of node i, node i excluded
Descendants(html, i) == {j \in 1..Len(html) : IsAncestor(html, i, j)}

RECURSIVE ConcatText(_, _, _)
\* the text nodes of the nodes in S, from node j on, in document order
ConcatText(html, S, j) ==
    IF j > Len(html) THEN <<>>
    ELSE (IF j \in S THEN html[j].text ELSE <<>>) \o ConcatText(html, S, j + 1)

\* cheerio .text() of element i
ElementText(html, i) == ConcatText(html, Descendants(html, i) \cup {i}, 1)

\* cheerio $.root().text()
RootText(html) == ConcatText(html, 1..Len(html), 1)

\* cheerio .prev(): the closest preceding sibling element, 0 when none
Prev(html, i) ==
    LET sibs == {j \in 1..(i - 1) : html[j].parent = html[i].parent}
    IN  IF sibs = {} THEN 0 ELSE CHOOSE j \in sibs : \A k \in sibs : j >= k

\* ------------------------------------------------------------------------
\* ANCHOR DETECTION
\* ------------------------------------------------------------------------
\* addAnchor without the seenIds test
addAnchor_unchecked(acc, id) ==
    IF id # <<>>
    THEN [seenIds |-> acc.seenIds \cup {id}, anchors |-> Append(acc.anchors, id)]
    ELSE acc

\* acc = [seenIds, anchors]; the closure addAnchor of collectAnchors
addAnchor(acc, id) ==
    IF id # <<>> /\ id \notin acc.seenIds
    THEN [seenIds |-> acc.seenIds \cup {id}, anchors |-> Append(acc.anchors, id)]
    ELSE acc

RECURSIVE DescendantIds(_, _, _)
\* rule 2: id then name of every descendant that has one, in document order
DescendantIds(html, i, j) ==
    IF j > Len(html) THEN <<>>
    ELSE (IF IsAncestor(html, i, j) /\ (html[j].id # <<>> \/ html[j].name # <<>>)
          THEN <<html[j].id, html[j].name>> ELSE <<>>)
         \o DescendantIds(html, i, j + 1)

RECURSIVE PrecedingIds(_, _)
\* rule 4: id then name of the preceding siblings, while they hold no text
PrecedingIds(html, prev) ==
    IF prev # 0 /\ Trim(ElementText(html, prev)) = <<>>
    THEN <<html[prev].id, html[prev].name>> \o PrecedingIds(html, Prev(html, prev))
    ELSE <<>>

\* the values handed to addAnchor for element i, in the order of the calls
AnchorCandidates(html, i) ==
    <<html[i].id>>
    \o DescendantIds(html, i, 1)
    \o (IF html[i].parent # 0 THEN <<html[html[i].parent].id>> ELSE <<>>)
    \o PrecedingIds(html, Prev(html, i))

RECURSIVE AddAll(_, _)
AddAll(acc, ids) ==
    IF ids = <<>> THEN acc ELSE AddAll(addAnchor(acc, Head(ids)), Tail(ids))

\* returns [seenIds |-> the updated set, anchors |-> the returned list]
collectAnchors(html, element, seenIds) ==
    AddAll([seenIds |-> seenIds, anchors |-> <<>>], AnchorCandidates(html, element))

\* ------------------------------------------------------------------------
\* HEADING EXTRACTION
\* ------------------------------------------------------------------------
IGNORED_HEADINGS == {
    <<"d", "o", "c", "u", "m", "e", "n", "t", " ", "o", "u", "t", "l", "i", "n", "e">>,
    <<"t", "a", "b", "l", "e", " ", "o", "f", " ", "c", "o", "n", "t", "e", "n", "t", "s">>,
    <<"c", "o", "n", "t", "e", "n", "t", "s">>,
    <<"t", "o", "c">>,
    <<"í", "n", "d", "i", "c", "e">>,
    <<"i", "n", "d", "i", "c", "e">>,
    <<"t", "a", "b", "l", "a", " ", "d", "e", " ", "c", "o", "n", "t", "e", "n", "i", "d", "o", "s">>,
    <<"c", "o", "p", "y", "r", "i", "g", "h", "t">>,
    <<"t", "i", "t", "l", "e", " ", "p", "a", "g", "e">>,
    <<"c", "o", "v", "e", "r">>,
    <<"p", "o", "r", "t", "a", "d", "a">>
}

HeadingTags == {"h1", "h2", "h3", "h4"}
HeadingClasses == {"chapter-title", "title"}

\* the ignore-list consulted with the text as it is written
FirstHeading_caseSensitive(html, j) ==
    LET good == {i \in j..Len(html) :
                    /\ (html[i].tag \in HeadingTags \/ html[i].cls \in HeadingClasses)
                    /\ Len(NormalizeWs(ElementText(html, i))) # 0
                    /\ NormalizeWs(ElementText(html, i)) \notin IGNORED_HEADINGS}
    IN  IF good = {} THEN <<>>
        ELSE NormalizeWs(ElementText(html, CHOOSE i \in good : \A k \in good : i <= k))

RECURSIVE FirstHeading(_, _)
\* .find(...) over the candidates from node j on; <<>> stands for null
FirstHeading(html, j) ==
    IF j > Len(html) THEN <<>>
    ELSE LET text == NormalizeWs(ElementText(html, j))
         IN  IF /\ (html[j].tag \in HeadingTags \/ html[j].cls \in HeadingClasses)
                /\ Len(text) # 0
                /\ ToLowerCase(text) \notin IGNORED_HEADINGS
             THEN text
             ELSE FirstHeading(html, j + 1)

extractHeadingFromChapter(html) == FirstHeading(html, 1)

\* ------------------------------------------------------------------------
\* PARAGRAPH EXTRACTION
\* ------------------------------------------------------------------------
ContentTags == {"p", "div", "li", "h1", "h2", "h3", "h4", "h5", "h6"}
NestingTags == {"p", "div", "li"}

\* the length test with 1 in the place of 2
Retained_minOne(html, j) ==
    /\ html[j].tag \in ContentTags
    /\ Len(NormalizeWs(ElementText(html, j))) >= 1
    /\ ~(/\ \E k \in Descendants(html, j) : html[k].tag \in NestingTags
         /\ html[j].tag = "div")

\* the guards of the .each callback: element j is kept as a paragraph
Retained(html, j) ==
    /\ html[j].tag \in ContentTags
    /\ Len(NormalizeWs(ElementText(html, j))) >= 2
    /\ ~(/\ \E k \in Descendants(html, j) : html[k].tag \in NestingTags
         /\ html[j].tag = "div")

RECURSIVE EachElement(_, _, _)
\* the .each loop from node j on; st = [cleaned, seenIds]
EachElement(html, j, st) ==
    IF j > Len(html) THEN st
    ELSE IF Retained(html, j)
         THEN LET got == collectAnchors(html, j, st.seenIds)
              IN  EachElement(html, j + 1,
                      [cleaned |-> Append(st.cleaned,
                                      [text |-> NormalizeWs(ElementText(html, j)),
                                       anchors |-> got.anchors]),
                       seenIds |-> got.seenIds])
         ELSE EachElement(html, j + 1, st)

extractParagraphsFromChapter(html) ==
    LET cleaned == EachElement(html, 1, [cleaned |-> <<>>, seenIds |-> {}]).cleaned
        rootText == NormalizeWs(RootText(html))
    IN  [paragraphs |->
            IF Len(cleaned) = 0
            THEN (IF Len(rootText) >= 2
                  THEN <<[text |-> rootText, anchors |-> <<>>]>> ELSE <<>>)
            ELSE cleaned,
         heading |-> extractHeadingFromChapter(html)]

\* ------------------------------------------------------------------------
\* Books: the output of the container parser (epub.toc, epub.flow and the
\* outcome of getChapterAsync for every flow entry)
\* ------------------------------------------------------------------------
El(tag, id, parent, text) ==
    [tag |-> tag, id |-> id, name |-> <<>>, cls |-> "", parent |-> parent, text |-> text]

\* the navigation entries books are made of
TocList == <<
    [id |-> "",   title |-> <<"U", "n">>,      href |-> <<".", ".", "/", "t", "/", "a", "#", "x">>],
    [id |-> "d2", title |-> <<" ", "ú", "n">>, href |-> <<"O", "P", "S", "/", "b">>],
    [id |-> "",   title |-> <<"D", "o">>,      href |-> <<"t", "/", "a", "#", "y">>],
    [id |-> "d3", title |-> <<"T", "r">>,      href |-> <<>>]
>>

TocPool == {TocList[i] : i \in 1..Len(TocList)}

HtmlAnchored ==
    << El("p", <<"x">>, 0, <<"U", "n">>),
       El("p", <<"y">>, 0, <<"D", "o", " ", "\n", "i", "t">>) >>
HtmlHeading ==
    << El("h1", <<>>, 0, <<"D", "o">>), El("p", <<>>, 0, <<"a", "b">>) >>
HtmlTooShort == << El("p", <<>>, 0, <<"a">>) >>
HtmlBareText == << El("span", <<>>, 0, <<"u", "n">>) >>
HtmlTwoAnchors ==
    << El("p", <<"y">>, 0, <<"D", "o">>), El("a", <<"x">>, 1, <<>>) >>

\* the flow entries books are made of
FlowList == <<
    [id |-> "d1", href |-> <<"O", "E", "B", "P", "S", "/", "t", "/", "a">>,
                  load |-> "ok", html |-> HtmlAnchored],
    [id |-> "d2", href |-> <<"b">>, load |-> "ok", html |-> HtmlHeading],
    [id |-> "d2", href |-> <<"b">>, load |-> "throws", html |-> <<>>],
    [id |-> "",   href |-> <<"t", "/", "a">>, load |-> "ok", html |-> HtmlAnchored],
    [id |-> "d2", href |-> <<"b">>, load |-> "ok", html |-> HtmlTooShort],
    [id |-> "d2", href |-> <<"b">>, load |-> "ok", html |-> <<>>],
    [id |-> "d3", href |-> <<"x", "/", "b">>, load |-> "ok", html |-> HtmlBareText],
    [id |-> "d1", href |-> <<"u", "/", "a">>, load |-> "ok", html |-> HtmlTwoAnchors]
>>

FlowPool == {FlowList[i] : i \in 1..Len(FlowList)}

SeqsUpTo(S, n) == UNION {[1..k -> S] : k \in 0..n}

Tocs == SeqsUpTo(TocPool, MaxToc)
Flows == SeqsUpTo(FlowPool, MaxFlow)

\* ExtractOptions: maxParagraphs is undefined or a positive integer
Options == {[defined |-> FALSE, maxParagraphs |-> 0]}
           \cup [defined : {TRUE}, maxParagraphs : 1..MaxCap]

\* ------------------------------------------------------------------------
\* State: the local variables of every call of streamParagraphsFromEpub
\* ------------------------------------------------------------------------
\* calls 1 and 2 are the calls under study; calls 3 and 4 are their
\* references, run on the same books with nothing else running
Calls == {1, 2, 3, 4}

VARIABLES
    epub,                    \* epub[c]: the book call c reads
    options,                 \* options[c]
    pc,                      \* where call c stands
    count,
    chapters,
    seenChapterTitles,
    tocEntries,
    tocIdMap,
    tocAnchorMap,
    tocFileMap,
    collectedParagraphs,
    flowIdx,                 \* position of the for loop over epub.flow
    chapterContent,          \* result of extractParagraphsFromChapter
    paraIdx,                 \* position of the for loop over the paragraphs
    fileChapters,
    startParagraphIdForFile,
    handlerCalls,            \* paragraphs handed to the sink, in call order
    handlerPending,          \* ids of the sink calls that have not resolved
    handlerDone,             \* ids of the resolved sink calls, in order
    tier3Ran,                \* the STEP 3 branch was taken
    returnedAtCap,           \* the call returned inside the paragraph loop
    result,                  \* the returned { paragraphCount, chapters }
    api,                     \* api[c]: the exported function call c entered by
    paragraphs,              \* the array of extractParagraphsFromEpub
    buffered,                \* what extractParagraphsFromEpub returned
    html,                    \* argument of a direct extractParagraphsFromChapter call
    extracted,               \* and its result
    path,                    \* argument and results of normalizePath and getFilename
    db,                      \* the tables books and bookChunks, the file storage, the scheduler
    run,                     \* the processBook action in progress
    served                   \* what the public functions have returned, and to whom

vars == <<epub, options, pc, count, chapters, seenChapterTitles, tocEntries,
          tocIdMap, tocAnchorMap, tocFileMap, collectedParagraphs, flowIdx,
          chapterContent, paraIdx, fileChapters, startParagraphIdForFile,
          handlerCalls, handlerPending, handlerDone, tier3Ran, returnedAtCap, result,
          api, paragraphs, buffered, html, extracted, path, db, run, served>>

appVars == <<path, db, run, served>>

callVars == <<epub, options, pc, count, chapters, seenChapterTitles, tocEntries,
              tocIdMap, tocAnchorMap, tocFileMap, collectedParagraphs, flowIdx,
              chapterContent, paraIdx, fileChapters, startParagraphIdForFile,
              handlerCalls, handlerPending, handlerDone, tier3Ran, returnedAtCap, result,
              api, paragraphs, buffered>>

\* ------------------------------------------------------------------------
\* Map<K, V>
\* ------------------------------------------------------------------------
EmptyMap == [k \in {} |-> <<>>]
MapHas(m, k) == k \in DOMAIN m
MapSet(m, k, v) == [x \in DOMAIN m \cup {k} |-> IF x = k THEN v ELSE m[x]]

\* ------------------------------------------------------------------------
\* STEP 1: Build TOC lookup structures
\* ------------------------------------------------------------------------
NoIndex == [tocEntries |-> <<>>, tocIdMap |-> EmptyMap,
            tocAnchorMap |-> EmptyMap, tocFileMap |-> EmptyMap]

\* tocAnchorMap.get(key).set(anchor, title), creating the inner map if absent
AnchorMapSet(m, key, anchor, title) ==
    MapSet(m, key, MapSet(IF MapHas(m, key) THEN m[key] ELSE EmptyMap, anchor, title))

\* one iteration of the loop over epub.toc
IndexTocEntry(ix, tocEntry, i) ==
    LET trimmedTitle == NormalizeWs(tocEntry.title)
        rawFile == SplitPart(tocEntry.href, "#", 0)
        anchor == SplitPart(tocEntry.href, "#", 1)
        normalizedFile == normalizePath(rawFile)
        filename == getFilename(rawFile)
        idMap == IF tocEntry.id # "" THEN MapSet(ix.tocIdMap, tocEntry.id, trimmedTitle)
                 ELSE ix.tocIdMap
    IN  IF tocEntry.title = <<>> \/ Len(trimmedTitle) = 0 THEN ix
        ELSE IF tocEntry.href = <<>> THEN [ix EXCEPT !.tocIdMap = idMap]
        ELSE [tocEntries |-> Append(ix.tocEntries,
                                [title |-> trimmedTitle, file |-> normalizedFile,
                                 anchor |-> anchor, order |-> i - 1]),
              tocIdMap |-> idMap,
              tocAnchorMap |->
                  IF anchor # <<>>
                  THEN AnchorMapSet(AnchorMapSet(ix.tocAnchorMap, normalizedFile, anchor, trimmedTitle),
                                    filename, anchor, trimmedTitle)
                  ELSE ix.tocAnchorMap,
              tocFileMap |->
                  IF anchor # <<>> THEN ix.tocFileMap
                  ELSE MapSet(MapSet(ix.tocFileMap, normalizedFile, trimmedTitle),
                              filename, trimmedTitle)]

RECURSIVE IndexToc(_, _, _)
IndexToc(toc, i, ix) ==
    IF i > Len(toc) THEN ix ELSE IndexToc(toc, i + 1, IndexTocEntry(ix, toc[i], i))

\* ------------------------------------------------------------------------
\* STEP 2: helpers of the loop over epub.flow
\* ------------------------------------------------------------------------
\* let count = 0
InitialCount == 0

\* count declared at module level: one counter for every call
SetCount_moduleLevel(cnts, c, n) == [k \in Calls |-> n]

\* count is a local of the call: a write reaches the counter of call c only
SetCount(cnts, c, n) == [cnts EXCEPT ![c] = n]

\* a set kept at module level: what earlier calls have put in it is still there
InitialSeenChapterTitles_shared == UNION {seenChapterTitles[c] : c \in Calls}

\* const seenChapterTitles = new Set<string>()
InitialSeenChapterTitles == {}

\* the test for an empty paragraph list left out
HasParagraphs_always(content) == TRUE

\* chapterContent.paragraphs.length === 0 is false
HasParagraphs(content) == Len(content.paragraphs) # 0

\* the start of the file taken without the + 1
StartParagraphIdFor_count(cnt) == cnt

\* const startParagraphIdForFile = count + 1
StartParagraphIdFor(cnt) == cnt + 1

\* the id taken zero-based
ParagraphOf_zeroBased(cnt, para) == [id |-> cnt - 1, text |-> para.text]

\* const paragraph = { id: count, text: para.text }
ParagraphOf(cnt, para) == [id |-> cnt, text |-> para.text]

\* the title test left out
TitleSeen_never(seen, normalizedKey) == FALSE

\* seenChapterTitles.has(normalizedKey)
TitleSeen(seen, normalizedKey) == normalizedKey \in seen

\* the cap compared with > instead of >=
CapReached_strict(opt, cnt) == opt.defined /\ cnt > opt.maxParagraphs

\* the cap taken as reached one paragraph early
CapReached_early(opt, cnt) == opt.defined /\ cnt + 1 >= opt.maxParagraphs

\* maxParagraphs !== undefined && count >= maxParagraphs
CapReached(opt, cnt) == opt.defined /\ cnt >= opt.maxParagraphs

\* tocAnchorMap.get(normalizedEntryFile) || tocAnchorMap.get(entryFilename) || new Map()
FileAnchorMap(anchorMap, entry) ==
    IF MapHas(anchorMap, normalizePath(entry.href)) THEN anchorMap[normalizePath(entry.href)]
    ELSE IF MapHas(anchorMap, getFilename(entry.href)) THEN anchorMap[getFilename(entry.href)]
    ELSE EmptyMap

\* the loop over para.anchors left at the first anchor that records a chapter
AnchorChapters_firstOnly(anchors, k, fileAnchorMap, cnt, st) ==
    LET hits == {i \in k..Len(anchors) :
                    /\ MapHas(fileAnchorMap, anchors[i])
                    /\ normalizeForDedup(fileAnchorMap[anchors[i]]) \notin st.seen}
    IN  IF hits = {} THEN st
        ELSE [seen |-> st.seen
                          \cup {normalizeForDedup(
                                    fileAnchorMap[anchors[CHOOSE i \in hits : \A j \in hits : i <= j]])},
              fileChapters |->
                  Append(st.fileChapters,
                         [paragraphId |-> cnt,
                          title |-> fileAnchorMap[anchors[CHOOSE i \in hits : \A j \in hits : i <= j]]])]

RECURSIVE AnchorChapters(_, _, _, _, _)
\* the loop over para.anchors; st = [seen, fileChapters]
AnchorChapters(anchors, k, fileAnchorMap, cnt, st) ==
    IF k > Len(anchors) THEN st
    ELSE IF /\ MapHas(fileAnchorMap, anchors[k])
            /\ ~TitleSeen(st.seen, normalizeForDedup(fileAnchorMap[anchors[k]]))
         THEN AnchorChapters(anchors, k + 1, fileAnchorMap, cnt,
                  [seen |-> st.seen \cup {normalizeForDedup(fileAnchorMap[anchors[k]])},
                   fileChapters |-> Append(st.fileChapters,
                                       [paragraphId |-> cnt,
                                        title |-> fileAnchorMap[anchors[k]]])])
         ELSE AnchorChapters(anchors, k + 1, fileAnchorMap, cnt, st)

\* the anchor chapters of the file left behind
PushFileChapters_none(chs, fileChs) == chs

\* chapters.push({ index: chapters.length, title, startParagraphId }) for each
\* element of fileChapters
RECURSIVE PushFileChapters(_, _)
PushFileChapters(chs, fileChs) ==
    IF fileChs = <<>> THEN chs
    ELSE PushFileChapters(
             Append(chs, [index |-> Len(chs), title |-> Head(fileChs).title,
                          startParagraphId |-> Head(fileChs).paragraphId]),
             Tail(fileChs))

\* the heading tried before the navigation index
DocumentTitle_headingFirst(idMap, fileMap, entry, content) ==
    IF content.heading # <<>> THEN content.heading
    ELSE IF MapHas(idMap, entry.id) THEN idMap[entry.id]
    ELSE IF MapHas(fileMap, normalizePath(entry.href)) THEN fileMap[normalizePath(entry.href)]
    ELSE IF MapHas(fileMap, getFilename(entry.href)) THEN fileMap[getFilename(entry.href)]
    ELSE <<>>

\* Methods A, B, C of the document-level match; <<>> when none applies
DocumentTitle(idMap, fileMap, entry, content) ==
    IF MapHas(idMap, entry.id) THEN idMap[entry.id]
    ELSE IF MapHas(fileMap, normalizePath(entry.href)) THEN fileMap[normalizePath(entry.href)]
    ELSE IF MapHas(fileMap, getFilename(entry.href)) THEN fileMap[getFilename(entry.href)]
    ELSE content.heading

\* ------------------------------------------------------------------------
\* STEP 3 and STEP 4
\* ------------------------------------------------------------------------
FullBook == <<"F", "u", "l", "l", " ", "b", "o", "o", "k">>

\* the half taken by integer division
FoundEnough_intDiv(chs, entries) == Len(chs) >= Len(entries) \div 2 \/ Len(entries) <= 2

\* chapters.length >= expectedChapters / 2 || expectedChapters <= 2
FoundEnough(chs, entries) == 2 * Len(chs) >= Len(entries) \/ Len(entries) <= 2

RECURSIVE FirstMatch(_, _, _)
\* index of the first collected paragraph matching the title, 0 when none
FirstMatch(paras, k, title) ==
    IF k > Len(paras) THEN 0
    ELSE IF textMatchesTitle(paras[k].text, title) THEN k
    ELSE FirstMatch(paras, k + 1, title)

\* one navigation entry of the text-matching fallback: hit is the index of
\* the first matching paragraph (0 when none), key the normalized title
RecordMatch(st, title, key, hit, paras) ==
    IF hit # 0 /\ ~TitleSeen(st.seen, key)
    THEN [seen |-> st.seen \cup {key},
          chapters |-> Append(st.chapters,
                          [index |-> Len(st.chapters), title |-> title,
                           startParagraphId |-> paras[hit].id])]
    ELSE st

RECURSIVE TextMatchChapters(_, _, _, _)
\* the loop over tocEntries of the text-matching fallback; st = [seen, chapters]
TextMatchChapters(entries, k, paras, st) ==
    IF k > Len(entries) THEN st
    ELSE TextMatchChapters(entries, k + 1, paras,
             RecordMatch(st, entries[k].title, normalizeForDedup(entries[k].title),
                         FirstMatch(paras, 1, entries[k].title), paras))

RECURSIVE InsertChapter(_, _)
InsertChapter(sorted, ch) ==
    IF sorted = <<>> THEN <<ch>>
    ELSE IF sorted[Len(sorted)].startParagraphId <= ch.startParagraphId
         THEN Append(sorted, ch)
         ELSE Append(InsertChapter(SubSeq(sorted, 1, Len(sorted) - 1), ch),
                     sorted[Len(sorted)])

\* the sort left out
SortChapters_none(chs) == chs

RECURSIVE SortChapters(_)
\* chapters.sort((a, b) => a.startParagraphId - b.startParagraphId), stable
SortChapters(chs) ==
    IF chs = <<>> THEN <<>>
    ELSE InsertChapter(SortChapters(SubSeq(chs, 1, Len(chs) - 1)), chs[Len(chs)])

\* chapters.forEach((ch, i) => { ch.index = i })
Reindex(chs) == [i \in 1..Len(chs) |-> [chs[i] EXCEPT !.index = i - 1]]

\* the text-matching branch is taken
NeedsTextMatch(chs, entries, paras) == ~FoundEnough(chs, entries) /\ Len(paras) > 0

\* STEP 3 taken: reset, match by text, sort
Rebuild(st) == [seen |-> st.seen, chapters |-> SortChapters(st.chapters)]

\* STEP 4 without the test of count
Complete_noCountTest(st, cnt) ==
    [seen |-> st.seen,
     chapters |-> Reindex(IF Len(st.chapters) = 0
                          THEN <<[index |-> 0, title |-> FullBook, startParagraphId |-> 1]>>
                          ELSE st.chapters)]

\* STEP 4 and the re-indexing
Complete(st, cnt) ==
    [seen |-> st.seen,
     chapters |-> Reindex(IF Len(st.chapters) = 0 /\ cnt > 0
                          THEN <<[index |-> 0, title |-> FullBook, startParagraphId |-> 1]>>
                          ELSE st.chapters)]

\* the text matching started without chapters.length = 0 and
\* seenChapterTitles.clear()
Finish_noReset(chs, seen, entries, paras, cnt) ==
    Complete(IF NeedsTextMatch(chs, entries, paras)
             THEN Rebuild(TextMatchChapters(entries, 1, paras, [seen |-> seen, chapters |-> chs]))
             ELSE [seen |-> seen, chapters |-> chs],
             cnt)

\* everything after the loop over epub.flow: [seen, chapters]
Finish(chs, seen, entries, paras, cnt) ==
    Complete(IF NeedsTextMatch(chs, entries, paras)
             THEN Rebuild(TextMatchChapters(entries, 1, paras, [seen |-> {}, chapters |-> <<>>]))
             ELSE [seen |-> seen, chapters |-> chs],
             cnt)

\* ------------------------------------------------------------------------
\* Documents handed directly to extractParagraphsFromChapter
\* ------------------------------------------------------------------------
DomTags == {"p", "div", "a"}
DomIds == {<<>>, <<"x">>, <<"y">>}
DomNames == {<<>>, <<"x">>}
DomTexts == {<<>>, <<"c">>, <<" ", "a", " ", "\n", "b">>}

Shapes == [tag : DomTags, id : DomIds, name : DomNames, text : DomTexts]

\* parent vectors of a pre-order listing of k nodes
ParentVecs(k) ==
    {pv \in [1..k -> 0..(k - 1)] :
        \A i \in 1..k :
            /\ pv[i] < i
            /\ i > 1 => \/ pv[i] = 0
                        \/ pv[i] = i - 1
                        \/ \E a \in 1..(i - 2) :
                              /\ a = pv[i]
                              /\ IsAncestor([j \in 1..k |-> [parent |-> pv[j]]], a, i - 1)}

\* the document with k nodes of shapes sh and parents pv
MkDom(k, sh, pv) ==
    [i \in 1..k |-> [tag |-> sh[i].tag, id |-> sh[i].id, name |-> sh[i].name,
                     cls |-> "", parent |-> pv[i], text |-> sh[i].text]]

NotExtracted == [done |-> FALSE, paragraphs |-> <<>>, heading |-> <<>>]

\* documents with heading candidates
HeadingDomTags == {"h1", "p", "span"}
HeadingDomClasses == {"", "title"}
HeadingDomTexts == {<<>>, <<" ">>, <<" ", "T", "O", "C", "\n">>, <<"A", " ", " ", "b">>}

HeadingShapes == [tag : HeadingDomTags, cls : HeadingDomClasses, text : HeadingDomTexts]

MkHeadingDom(k, sh, pv) ==
    [i \in 1..k |-> [tag |-> sh[i].tag, id |-> <<>>, name |-> <<>>,
                     cls |-> sh[i].cls, parent |-> pv[i], text |-> sh[i].text]]

\* ------------------------------------------------------------------------
\* Initial states
\* ------------------------------------------------------------------------
NoResult == [paragraphCount |-> 0, chapters |-> <<>>]
NoContent == [paragraphs |-> <<>>, heading |-> <<>>]
EmptyBook == [toc |-> <<>>, flow |-> <<>>]

\* extractParagraphsFromEpub has not returned
NotReturned == [done |-> FALSE, paragraphs |-> <<>>, chapters |-> <<>>]

\* normalizePath has not been called
NoPath == [href |-> <<>>, done |-> FALSE, normalized |-> <<>>, filename |-> <<>>,
           again |-> FALSE, renormalized |-> <<>>]

\* a missing row of the table books
NoBook == [exists |-> FALSE, userId |-> "", storageId |-> FALSE,
           processingStatus |-> "", totalChunks |-> 0, lastOpenedAt |-> 0,
           lastReadParagraphId |-> 0]

\* no stored file
NoFile == [stored |-> FALSE, corrupt |-> FALSE, paragraphCount |-> 0]

\* no book, no chunk, no user, no file, nothing scheduled
NoDb == [book |-> NoBook, bookChunks |-> <<>>, users |-> {}, file |-> NoFile,
         scheduled |-> 0]

\* processBook has not been called
NoRun == [pc |-> "idle", caller |-> "", paragraphCount |-> 0, corrupt |-> FALSE,
          chunkIndex |-> 0, totalChunks |-> 0, chunkParagraphs |-> <<>>,
          chunkBuffer |-> <<>>, emitted |-> 0, after |-> "", written |-> <<>>,
          inserted |-> <<>>]

\* nothing but the extraction engine runs
AppIdle ==
    /\ path = NoPath
    /\ db = NoDb
    /\ run = NoRun
    /\ served = {}

CallsIdle ==
    /\ pc = [c \in Calls |-> "idle"]
    /\ count = [c \in Calls |-> 0]
    /\ chapters = [c \in Calls |-> <<>>]
    /\ seenChapterTitles = [c \in Calls |-> {}]
    /\ tocEntries = [c \in Calls |-> <<>>]
    /\ tocIdMap = [c \in Calls |-> EmptyMap]
    /\ tocAnchorMap = [c \in Calls |-> EmptyMap]
    /\ tocFileMap = [c \in Calls |-> EmptyMap]
    /\ collectedParagraphs = [c \in Calls |-> <<>>]
    /\ flowIdx = [c \in Calls |-> 0]
    /\ chapterContent = [c \in Calls |-> NoContent]
    /\ paraIdx = [c \in Calls |-> 0]
    /\ fileChapters = [c \in Calls |-> <<>>]
    /\ startParagraphIdForFile = [c \in Calls |-> 0]
    /\ handlerCalls = [c \in Calls |-> <<>>]
    /\ handlerPending = [c \in Calls |-> {}]
    /\ handlerDone = [c \in Calls |-> <<>>]
    /\ tier3Ran = [c \in Calls |-> FALSE]
    /\ returnedAtCap = [c \in Calls |-> FALSE]
    /\ result = [c \in Calls |-> NoResult]
    /\ paragraphs = [c \in Calls |-> <<>>]
    /\ buffered = [c \in Calls |-> NotReturned]

\* every call is handed the same book and the same options
Init ==
    /\ \E t \in Tocs, f \in Flows : epub = [c \in Calls |-> [toc |-> t, flow |-> f]]
    /\ \E o \in Options : options = [c \in Calls |-> o]
    /\ api = [c \in Calls |-> "stream"]
    /\ CallsIdle
    /\ AppIdle
    /\ html = <<>>
    /\ extracted = NotExtracted

\* every call enters by extractParagraphsFromEpub
InitBuffered ==
    /\ \E t \in Tocs, f \in Flows : epub = [c \in Calls |-> [toc |-> t, flow |-> f]]
    /\ \E o \in Options : options = [c \in Calls |-> o]
    /\ api = [c \in Calls |-> "buffered"]
    /\ CallsIdle
    /\ AppIdle
    /\ html = <<>>
    /\ extracted = NotExtracted

\* the book whose only content document is doc, without navigation entries
BookOf(doc) ==
    [toc |-> <<>>,
     flow |-> <<[id |-> "d1", href |-> <<"a">>, load |-> "ok", html |-> doc]>>]

\* a generated document, handed to extractParagraphsFromChapter directly
\* and, as a book of one document, to every call
InitDom ==
    /\ \E k \in 0..MaxNodes :
          \E sh \in [1..k -> Shapes], pv \in ParentVecs(k) :
              /\ html = MkDom(k, sh, pv)
              /\ epub = [c \in Calls |-> BookOf(MkDom(k, sh, pv))]
    /\ options = [c \in Calls |-> [defined |-> FALSE, maxParagraphs |-> 0]]
    /\ api = [c \in Calls |-> "stream"]
    /\ CallsIdle
    /\ AppIdle
    /\ extracted = NotExtracted

\* ------------------------------------------------------------------------
\* streamParagraphsFromEpub, call c
\* ------------------------------------------------------------------------
Entry(c) == epub[c].flow[flowIdx[c]]

\* handler(paragraph) called without await
HandlerAwaited_never(c) == TRUE

\* the promise returned by handler(paragraph) has resolved
HandlerAwaited(c) == handlerPending[c] = {}

\* the accumulating sink with unshift in the place of push
SinkPush_unshift(kind, acc, paragraph) ==
    IF kind = "buffered" THEN <<paragraph>> \o acc ELSE acc

\* the sink of extractParagraphsFromEpub: paragraphs.push(paragraph); the
\* sink of any other caller leaves the array of the adapter alone
SinkPush(kind, acc, paragraph) ==
    IF kind = "buffered" THEN Append(acc, paragraph) ELSE acc

\* the call starts: local state and the TOC lookup structures
Begin(c) ==
    /\ pc[c] = "idle"
    /\ LET ix == IndexToc(epub[c].toc, 1, NoIndex)
       IN  /\ tocEntries' = [tocEntries EXCEPT ![c] = ix.tocEntries]
           /\ tocIdMap' = [tocIdMap EXCEPT ![c] = ix.tocIdMap]
           /\ tocAnchorMap' = [tocAnchorMap EXCEPT ![c] = ix.tocAnchorMap]
           /\ tocFileMap' = [tocFileMap EXCEPT ![c] = ix.tocFileMap]
    /\ chapters' = [chapters EXCEPT ![c] = <<>>]
    /\ seenChapterTitles' = [seenChapterTitles EXCEPT ![c] = InitialSeenChapterTitles]
    /\ count' = SetCount(count, c, InitialCount)
    /\ collectedParagraphs' = [collectedParagraphs EXCEPT ![c] = <<>>]
    /\ flowIdx' = [flowIdx EXCEPT ![c] = 1]
    /\ pc' = [pc EXCEPT ![c] = "flow"]
    /\ UNCHANGED <<epub, options, chapterContent, paraIdx, fileChapters,
                   startParagraphIdForFile, handlerCalls, handlerPending,
                   handlerDone, tier3Ran, returnedAtCap, result, html, extracted, appVars,
                   api, paragraphs, buffered>>

\* the document is left by a continue statement: nothing but the loop moves
Continue(c) ==
    /\ flowIdx' = [flowIdx EXCEPT ![c] = @ + 1]
    /\ UNCHANGED <<epub, options, pc, count, chapters, seenChapterTitles, tocEntries,
                   tocIdMap, tocAnchorMap, tocFileMap, collectedParagraphs,
                   chapterContent, paraIdx, fileChapters, startParagraphIdForFile,
                   handlerCalls, handlerPending, handlerDone, tier3Ran,
                   returnedAtCap, result, html, extracted, appVars,
                   api, paragraphs, buffered>>

AtEntry(c) == pc[c] = "flow" /\ flowIdx[c] <= Len(epub[c].flow)

\* if (!entry?.id) continue
SkipNoId(c) ==
    /\ AtEntry(c)
    /\ Entry(c).id = ""
    /\ Continue(c)

\* getChapterAsync rejects: catch { continue }
LoadThrows(c) ==
    /\ AtEntry(c)
    /\ Entry(c).id # ""
    /\ Entry(c).load = "throws"
    /\ Continue(c)

\* if (!chapterHtml) continue
LoadEmpty(c) ==
    /\ AtEntry(c)
    /\ Entry(c).id # ""
    /\ Entry(c).load = "ok"
    /\ Entry(c).html = <<>>
    /\ Continue(c)

\* if (chapterContent.paragraphs.length === 0) continue
LoadNoParagraphs(c) ==
    /\ AtEntry(c)
    /\ Entry(c).id # ""
    /\ Entry(c).load = "ok"
    /\ Entry(c).html # <<>>
    /\ ~HasParagraphs(extractParagraphsFromChapter(Entry(c).html))
    /\ Continue(c)

\* the document has paragraphs: set up the per-file state
LoadOk(c) ==
    /\ AtEntry(c)
    /\ Entry(c).id # ""
    /\ Entry(c).load = "ok"
    /\ Entry(c).html # <<>>
    /\ HasParagraphs(extractParagraphsFromChapter(Entry(c).html))
    /\ chapterContent' = [chapterContent EXCEPT ![c] = extractParagraphsFromChapter(Entry(c).html)]
    /\ fileChapters' = [fileChapters EXCEPT ![c] = <<>>]
    /\ startParagraphIdForFile' = [startParagraphIdForFile EXCEPT ![c] = StartParagraphIdFor(count[c])]
    /\ paraIdx' = [paraIdx EXCEPT ![c] = 1]
    /\ pc' = [pc EXCEPT ![c] = "para"]
    /\ UNCHANGED <<epub, options, count, chapters, seenChapterTitles, tocEntries,
                   tocIdMap, tocAnchorMap, tocFileMap, collectedParagraphs, flowIdx,
                   handlerCalls, handlerPending, handlerDone, tier3Ran,
                   returnedAtCap, result, html, extracted, appVars,
                   api, paragraphs, buffered>>

\* one paragraph: number it, match its anchors, collect it, call the sink
EmitParagraph(c) ==
    /\ pc[c] = "para"
    /\ paraIdx[c] <= Len(chapterContent[c].paragraphs)
    /\ LET cnt == count[c] + 1
           para == chapterContent[c].paragraphs[paraIdx[c]]
           paragraph == ParagraphOf(cnt, para)
           st == AnchorChapters(para.anchors, 1, FileAnchorMap(tocAnchorMap[c], Entry(c)), cnt,
                                [seen |-> seenChapterTitles[c],
                                 fileChapters |-> fileChapters[c]])
       IN  /\ count' = SetCount(count, c, cnt)
           /\ seenChapterTitles' = [seenChapterTitles EXCEPT ![c] = st.seen]
           /\ fileChapters' = [fileChapters EXCEPT ![c] = st.fileChapters]
           /\ collectedParagraphs' = [collectedParagraphs EXCEPT ![c] = Append(@, paragraph)]
           /\ handlerCalls' = [handlerCalls EXCEPT ![c] = Append(@, paragraph)]
           /\ handlerPending' = [handlerPending EXCEPT ![c] = @ \cup {paragraph.id}]
           /\ paragraphs' = [paragraphs EXCEPT ![c] = SinkPush(api[c], @, paragraph)]
    /\ pc' = [pc EXCEPT ![c] = "sink"]
    /\ UNCHANGED <<epub, options, chapters, tocEntries, tocIdMap, tocAnchorMap,
                   tocFileMap, flowIdx, chapterContent, paraIdx,
                   startParagraphIdForFile, handlerDone, tier3Ran, returnedAtCap,
                   result, html, extracted, appVars,
                   api, buffered>>

\* the sink finishes one of the calls it has been handed
HandlerResolves(c) ==
    /\ \E id \in handlerPending[c] :
          /\ handlerPending' = [handlerPending EXCEPT ![c] = @ \ {id}]
          /\ handlerDone' = [handlerDone EXCEPT ![c] = Append(@, id)]
    /\ UNCHANGED <<epub, options, pc, count, chapters, seenChapterTitles, tocEntries,
                   tocIdMap, tocAnchorMap, tocFileMap, collectedParagraphs, flowIdx,
                   chapterContent, paraIdx, fileChapters, startParagraphIdForFile,
                   handlerCalls, tier3Ran, returnedAtCap, result, html, extracted, appVars,
                   api, paragraphs, buffered>>

\* after await handler(paragraph): the cap is reached, return
ReturnAtCap(c) ==
    /\ pc[c] = "sink"
    /\ HandlerAwaited(c)
    /\ CapReached(options[c], count[c])
    /\ chapters' = [chapters EXCEPT ![c] = PushFileChapters(@, fileChapters[c])]
    /\ result' = [result EXCEPT ![c] = [paragraphCount |-> count[c],
                                        chapters |-> PushFileChapters(chapters[c], fileChapters[c])]]
    /\ returnedAtCap' = [returnedAtCap EXCEPT ![c] = TRUE]
    /\ pc' = [pc EXCEPT ![c] = "done"]
    /\ UNCHANGED <<epub, options, count, seenChapterTitles, tocEntries, tocIdMap,
                   tocAnchorMap, tocFileMap, collectedParagraphs, flowIdx,
                   chapterContent, paraIdx, fileChapters, startParagraphIdForFile,
                   handlerCalls, handlerPending, handlerDone, tier3Ran, html, extracted, appVars,
                   api, paragraphs, buffered>>

\* after await handler(paragraph): go on with the next paragraph
NextParagraph(c) ==
    /\ pc[c] = "sink"
    /\ HandlerAwaited(c)
    /\ ~CapReached(options[c], count[c])
    /\ paraIdx' = [paraIdx EXCEPT ![c] = @ + 1]
    /\ pc' = [pc EXCEPT ![c] = "para"]
    /\ UNCHANGED <<epub, options, count, chapters, seenChapterTitles, tocEntries,
                   tocIdMap, tocAnchorMap, tocFileMap, collectedParagraphs, flowIdx,
                   chapterContent, fileChapters, startParagraphIdForFile,
                   handlerCalls, handlerPending, handlerDone, tier3Ran,
                   returnedAtCap, result, html, extracted, appVars,
                   api, paragraphs, buffered>>

\* the paragraphs of the document are exhausted: anchor chapters, then the
\* document-level match when there was none
EndOfDocument(c) ==
    /\ pc[c] = "para"
    /\ paraIdx[c] > Len(chapterContent[c].paragraphs)
    /\ LET pushed == PushFileChapters(chapters[c], fileChapters[c])
           chapterTitle == DocumentTitle(tocIdMap[c], tocFileMap[c], Entry(c), chapterContent[c])
           normalizedKey == normalizeForDedup(chapterTitle)
       IN  IF /\ Len(fileChapters[c]) = 0
              /\ chapterTitle # <<>>
              /\ ~TitleSeen(seenChapterTitles[c], normalizedKey)
           THEN /\ seenChapterTitles' = [seenChapterTitles EXCEPT ![c] = @ \cup {normalizedKey}]
                /\ chapters' = [chapters EXCEPT ![c] =
                                   Append(pushed, [index |-> Len(pushed),
                                                   title |-> chapterTitle,
                                                   startParagraphId |-> startParagraphIdForFile[c]])]
           ELSE /\ seenChapterTitles' = seenChapterTitles
                /\ chapters' = [chapters EXCEPT ![c] = pushed]
    /\ flowIdx' = [flowIdx EXCEPT ![c] = @ + 1]
    /\ pc' = [pc EXCEPT ![c] = "flow"]
    /\ UNCHANGED <<epub, options, count, tocEntries, tocIdMap, tocAnchorMap,
                   tocFileMap, collectedParagraphs, chapterContent, paraIdx,
                   fileChapters, startParagraphIdForFile, handlerCalls,
                   handlerPending, handlerDone, tier3Ran, returnedAtCap, result,
                   html, extracted, appVars,
                   api, paragraphs, buffered>>

\* return { paragraphCount: count, chapters } with the final chapters
Return(c, fin) ==
    /\ chapters' = [chapters EXCEPT ![c] = fin.chapters]
    /\ seenChapterTitles' = [seenChapterTitles EXCEPT ![c] = fin.seen]
    /\ result' = [result EXCEPT ![c] = [paragraphCount |-> count[c],
                                        chapters |-> fin.chapters]]

\* the loop over epub.flow is over: STEP 3, STEP 4, re-index, return
FlowDone(c) ==
    /\ pc[c] = "flow"
    /\ flowIdx[c] > Len(epub[c].flow)
    /\ Return(c, Finish(chapters[c], seenChapterTitles[c], tocEntries[c],
                        collectedParagraphs[c], count[c]))
    /\ tier3Ran' = [tier3Ran EXCEPT ![c] =
                       NeedsTextMatch(chapters[c], tocEntries[c], collectedParagraphs[c])]
    /\ pc' = [pc EXCEPT ![c] = "done"]
    /\ UNCHANGED <<epub, options, count, tocEntries, tocIdMap, tocAnchorMap,
                   tocFileMap, collectedParagraphs, flowIdx, chapterContent, paraIdx,
                   fileChapters, startParagraphIdForFile, handlerCalls,
                   handlerPending, handlerDone, returnedAtCap, html, extracted, appVars,
                   api, paragraphs, buffered>>

Step(c) ==
    \/ Begin(c)
    \/ SkipNoId(c)
    \/ LoadThrows(c)
    \/ LoadEmpty(c)
    \/ LoadNoParagraphs(c)
    \/ LoadOk(c)
    \/ EmitParagraph(c)
    \/ HandlerResolves(c)
    \/ ReturnAtCap(c)
    \/ NextParagraph(c)
    \/ EndOfDocument(c)
    \/ FlowDone(c)

\* one extraction of one book
Next == Step(1)

Spec == Init /\ [][Next]_vars

\* ------------------------------------------------------------------------
\* extractParagraphsFromEpub: the streaming call with the accumulating sink
\* ------------------------------------------------------------------------
\* the awaited streaming call has returned: return { paragraphs, chapters }
AdapterReturns(c) ==
    /\ api[c] = "buffered"
    /\ pc[c] = "done"
    /\ ~buffered[c].done
    /\ buffered' = [buffered EXCEPT ![c] = [done |-> TRUE,
                                            paragraphs |-> paragraphs[c],
                                            chapters |-> result[c].chapters]]
    /\ UNCHANGED <<epub, options, pc, count, chapters, seenChapterTitles, tocEntries,
                   tocIdMap, tocAnchorMap, tocFileMap, collectedParagraphs, flowIdx,
                   chapterContent, paraIdx, fileChapters, startParagraphIdForFile,
                   handlerCalls, handlerPending, handlerDone, tier3Ran,
                   returnedAtCap, result, html, extracted, appVars, api, paragraphs>>

NextBuffered == Step(1) \/ AdapterReturns(1)

SpecBuffered == InitBuffered /\ [][NextBuffered]_vars

\* ------------------------------------------------------------------------
\* extractParagraphsFromChapter applied to one document
\* ------------------------------------------------------------------------
ExtractDocument ==
    /\ ~extracted.done
    /\ extracted' = [done |-> TRUE,
                     paragraphs |-> extractParagraphsFromChapter(html).paragraphs,
                     heading |-> extractParagraphsFromChapter(html).heading]
    /\ UNCHANGED <<html, callVars, appVars>>

\* the direct extraction, and the extraction of the book by call 1
NextDom ==
    \/ ExtractDocument
    \/ Begin(1)
    \/ LoadEmpty(1)
    \/ LoadNoParagraphs(1)
    \/ LoadOk(1)
    \/ EmitParagraph(1)
    \/ HandlerResolves(1)
    \/ NextParagraph(1)
    \/ EndOfDocument(1)
    \/ FlowDone(1)

SpecDom == InitDom /\ [][NextDom]_vars

\* ------------------------------------------------------------------------
\* A book of one document with heading candidates and no navigation entry:
\* the document handed to extractParagraphsFromChapter directly, and the
\* book extracted by call 1
\* ------------------------------------------------------------------------
InitHeading ==
    /\ \E k \in 0..MaxNodes :
          \E sh \in [1..k -> HeadingShapes], pv \in ParentVecs(k) :
              /\ html = MkHeadingDom(k, sh, pv)
              /\ epub = [c \in Calls |-> BookOf(MkHeadingDom(k, sh, pv))]
    /\ options = [c \in Calls |-> [defined |-> FALSE, maxParagraphs |-> 0]]
    /\ api = [c \in Calls |-> "stream"]
    /\ CallsIdle
    /\ AppIdle
    /\ extracted = NotExtracted

SpecHeading == InitHeading /\ [][NextDom]_vars

\* ------------------------------------------------------------------------
\* A book of one document of nested content elements, as the HTML parser
\* builds them: a p, li or heading start tag closes an open element of its
\* own kind, and a block start tag closes an open p
\* ------------------------------------------------------------------------
NestedTags == {"div", "li", "h1", "p"}
NestedTexts == {<<>>, <<"a", "b">>}

NestedShapes == [tag : NestedTags, cls : {""}, text : NestedTexts]

\* the tree builder leaves no element of NestedTags inside a p, no li as a
\* child of a li and no heading as a child of a heading
ParserBuilt(doc) ==
    \A j \in 1..Len(doc) :
        doc[j].parent # 0 =>
            /\ doc[doc[j].parent].tag # "p"
            /\ ~(doc[j].tag = "li" /\ doc[doc[j].parent].tag = "li")
            /\ ~(doc[j].tag = "h1" /\ doc[doc[j].parent].tag = "h1")

InitNested ==
    /\ \E k \in 0..MaxNodes :
          \E sh \in [1..k -> NestedShapes], pv \in ParentVecs(k) :
              /\ ParserBuilt(MkHeadingDom(k, sh, pv))
              /\ html = MkHeadingDom(k, sh, pv)
              /\ epub = [c \in Calls |-> BookOf(MkHeadingDom(k, sh, pv))]
    /\ options = [c \in Calls |-> [defined |-> FALSE, maxParagraphs |-> 0]]
    /\ api = [c \in Calls |-> "stream"]
    /\ CallsIdle
    /\ AppIdle
    /\ extracted = NotExtracted

SpecNested == InitNested /\ [][NextDom]_vars

\* ------------------------------------------------------------------------
\* Two extractions of the same book, one after the other
\* ------------------------------------------------------------------------
NextRepeat ==
    \/ Step(1)
    \/ (pc[1] = "done" /\ Step(2))

SpecRepeat == Init /\ [][NextRepeat]_vars

\* ------------------------------------------------------------------------
\* Two extractions of the same book, call 1 with a cap and then call 2
\* without one
\* ------------------------------------------------------------------------
InitCapped ==
    /\ \E t \in Tocs, f \in Flows : epub = [c \in Calls |-> [toc |-> t, flow |-> f]]
    /\ \E k \in 1..MaxCap :
          options = [c \in Calls |-> IF c = 1 THEN [defined |-> TRUE, maxParagraphs |-> k]
                                     ELSE [defined |-> FALSE, maxParagraphs |-> 0]]
    /\ api = [c \in Calls |-> "stream"]
    /\ CallsIdle
    /\ AppIdle
    /\ html = <<>>
    /\ extracted = NotExtracted

SpecCapped == InitCapped /\ [][NextRepeat]_vars

\* ------------------------------------------------------------------------
\* Two extractions of different books, their awaited steps interleaved
\* ------------------------------------------------------------------------
ConcurrentBooks == {
    [toc |-> TocList, flow |-> <<FlowList[1], FlowList[2]>>],
    [toc |-> <<>>, flow |-> <<FlowList[7], FlowList[3]>>],
    [toc |-> TocList, flow |-> <<FlowList[5], FlowList[2]>>],
    [toc |-> <<TocList[1], TocList[3]>>, flow |-> <<FlowList[4], FlowList[1]>>],
    [toc |-> TocList, flow |-> <<FlowList[6], FlowList[2]>>]
}

\* calls 1 and 2 are handed different books; call 3 is handed the book and
\* the options of call 1, call 4 those of call 2
InitConcurrent ==
    /\ \E b1 \in ConcurrentBooks : \E b2 \in ConcurrentBooks \ {b1} :
          epub = [c \in Calls |-> IF c \in {1, 3} THEN b1 ELSE b2]
    /\ \E o1 \in Options, o2 \in Options :
          options = [c \in Calls |-> IF c \in {1, 3} THEN o1 ELSE o2]
    /\ api = [c \in Calls |-> "stream"]
    /\ CallsIdle
    /\ AppIdle
    /\ html = <<>>
    /\ extracted = NotExtracted

\* the references run first, one after the other; calls 1 and 2 then run
\* with their steps interleaved in any order
NextConcurrent ==
    \/ Step(3)
    \/ (pc[3] = "done" /\ Step(4))
    \/ (pc[4] = "done" /\ Step(1))
    \/ (pc[4] = "done" /\ Step(2))

SpecConcurrent == InitConcurrent /\ [][NextConcurrent]_vars

\* ------------------------------------------------------------------------
\* normalizePath and getFilename applied to one href
\* ------------------------------------------------------------------------
\* pieces hrefs are written with
PathSegments == {
    <<>>,
    <<".", "/">>,
    <<".", ".", "/">>,
    <<".", ".", "\\">>,
    <<"O", "E", "B", "P", "S", "/">>,
    <<"o", "p", "s", "/">>,
    <<"O", "P", "S", "\\">>,
    <<"T", "\\">>,
    <<"a">>,
    <<"B", ".", "c">>,
    <<"/">>
}

RECURSIVE HrefsOf(_)
\* the hrefs written with at most n pieces
HrefsOf(n) ==
    IF n = 0 THEN {<<>>}
    ELSE {h \o g : h \in HrefsOf(n - 1), g \in PathSegments}

\* nothing in the engine runs
EngineIdle ==
    /\ epub = [c \in Calls |-> EmptyBook]
    /\ options = [c \in Calls |-> [defined |-> FALSE, maxParagraphs |-> 0]]
    /\ api = [c \in Calls |-> "stream"]
    /\ CallsIdle
    /\ html = <<>>
    /\ extracted = NotExtracted

InitPath ==
    /\ \E href \in HrefsOf(MaxSegments) : path = [NoPath EXCEPT !.href = href]
    /\ db = NoDb
    /\ run = NoRun
    /\ served = {}
    /\ EngineIdle

\* normalizePath(href) and getFilename(href)
NormalizeHref ==
    /\ ~path.done
    /\ path' = [path EXCEPT !.done = TRUE,
                            !.normalized = normalizePath(path.href),
                            !.filename = getFilename(path.href)]
    /\ UNCHANGED <<html, extracted, callVars, db, run, served>>

\* normalizePath applied to its own result
NormalizeAgain ==
    /\ path.done
    /\ ~path.again
    /\ path' = [path EXCEPT !.again = TRUE,
                            !.renormalized = normalizePath(path.normalized)]
    /\ UNCHANGED <<html, extracted, callVars, db, run, served>>

NextPath == NormalizeHref \/ NormalizeAgain

SpecPath == InitPath /\ [][NextPath]_vars

\* ------------------------------------------------------------------------
\* The tables books, users and bookChunks and the functions of convex/books.ts
\* ------------------------------------------------------------------------
CHUNK_SIZE == 50
CHUNK_FLUSH_BATCH == 4
DELETE_BATCH_SIZE == 100

\* who calls: nobody signed in, the user the book belongs to, another user
Identities == {"none", "owner", "other"}

\* the row create inserts: processingStatus "pending", totalChunks 0
NewBook(hasStorage) ==
    [exists |-> TRUE, userId |-> "owner", storageId |-> hasStorage,
     processingStatus |-> "pending", totalChunks |-> 0, lastOpenedAt |-> 0,
     lastReadParagraphId |-> 0]

\* the i-th paragraph the stored file yields
StoredParagraph(i) ==
    [id |-> i, text |-> IF i % 2 = 1 THEN <<"u", "n">> ELSE <<"d", "o">>]

\* getCurrentUser: the user row of the identity, "" for none
getCurrentUser(identity, users) ==
    IF identity = "none" THEN ""
    ELSE IF identity \in users THEN identity
    ELSE ""

\* what a public function answered, to whom, and whether it changed a table,
\* the storage or the scheduler
Answer(fn, caller, got) ==
    served' = {[fn |-> fn, caller |-> caller, got |-> got, changed |-> db' # db]}

\* query get
Get ==
    \E caller \in Identities :
        /\ db' = db
        /\ Answer("get", caller,
                  IF getCurrentUser(caller, db.users) = "" THEN "throws"
                  ELSE IF ~db.book.exists THEN "throws"
                  ELSE IF db.book.userId # getCurrentUser(caller, db.users) THEN "throws"
                  ELSE "details")
        /\ UNCHANGED <<html, extracted, callVars, path, run>>

\* query getInternal
GetInternal ==
    \E caller \in Identities :
        /\ db' = db
        /\ Answer("getInternal", caller,
                  IF ~db.book.exists THEN "throws" ELSE "details")
        /\ UNCHANGED <<html, extracted, callVars, path, run>>

\* query getFileUrl
GetFileUrl ==
    \E caller \in Identities :
        /\ db' = db
        /\ Answer("getFileUrl", caller,
                  IF getCurrentUser(caller, db.users) = "" THEN "throws"
                  ELSE IF ~db.book.exists THEN "throws"
                  ELSE IF db.book.userId # getCurrentUser(caller, db.users) THEN "throws"
                  ELSE IF ~db.book.storageId THEN "throws"
                  ELSE IF ~db.file.stored THEN "throws"
                  ELSE "url")
        /\ UNCHANGED <<html, extracted, callVars, path, run>>

\* query getProcessingStatus
GetProcessingStatus ==
    \E caller \in Identities :
        /\ db' = db
        /\ Answer("getProcessingStatus", caller,
                  IF getCurrentUser(caller, db.users) = "" THEN "null"
                  ELSE IF ~db.book.exists
                          \/ db.book.userId # getCurrentUser(caller, db.users) THEN "null"
                  ELSE "status")
        /\ UNCHANGED <<html, extracted, callVars, path, run>>

\* query getChunks
GetChunks ==
    \E caller \in Identities :
        /\ db' = db
        /\ Answer("getChunks", caller,
                  IF ~db.book.exists THEN "empty"
                  ELSE IF caller = "none" THEN "empty"
                  ELSE IF caller \notin db.users \/ db.book.userId # caller THEN "empty"
                  ELSE "chunks")
        /\ UNCHANGED <<html, extracted, callVars, path, run>>

\* the mutations that begin with getCurrentUserOrCreate and the owner test:
\* they throw, and the transaction is rolled back, unless the caller is
\* signed in, the book exists and is the caller's
MayMutate(caller) ==
    /\ caller # "none"
    /\ db.book.exists
    /\ db.book.userId = caller

\* mutation touchOpen
TouchOpen ==
    \E caller \in Identities :
        /\ db' = IF MayMutate(caller)
                 THEN [db EXCEPT !.users = @ \cup {caller}, !.book.lastOpenedAt = 1]
                 ELSE db
        /\ Answer("touchOpen", caller, IF MayMutate(caller) THEN "ok" ELSE "throws")
        /\ UNCHANGED <<html, extracted, callVars, path, run>>

\* mutation saveReadingPosition
SaveReadingPosition ==
    \E caller \in Identities :
        /\ db' = IF MayMutate(caller)
                 THEN [db EXCEPT !.users = @ \cup {caller}, !.book.lastReadParagraphId = 1]
                 ELSE db
        /\ Answer("saveReadingPosition", caller, IF MayMutate(caller) THEN "ok" ELSE "throws")
        /\ UNCHANGED <<html, extracted, callVars, path, run>>

\* mutation remove: the row and the file go at once, the chunks are left to
\* a scheduled deleteChunksBatch
Remove ==
    \E caller \in Identities :
        /\ db' = IF MayMutate(caller)
                 THEN [db EXCEPT !.users = @ \cup {caller},
                                 !.book = NoBook,
                                 !.file = IF db.book.storageId THEN NoFile ELSE @,
                                 !.scheduled = @ + 1]
                 ELSE db
        /\ Answer("remove", caller, IF MayMutate(caller) THEN "ok" ELSE "throws")
        /\ UNCHANGED <<html, extracted, callVars, path, run>>

\* the positions of the first n rows of the index by_book
TakeRows(rows, n) ==
    {i \in 1..Len(rows) :
        Cardinality({j \in 1..Len(rows) :
                        \/ rows[j].chunkIndex < rows[i].chunkIndex
                        \/ rows[j].chunkIndex = rows[i].chunkIndex /\ j < i}) < n}

RECURSIVE WithoutRows(_, _, _)
\* rows from position i on, without those at the positions gone
WithoutRows(rows, gone, i) ==
    IF i > Len(rows) THEN <<>>
    ELSE IF i \in gone THEN WithoutRows(rows, gone, i + 1)
    ELSE <<rows[i]>> \o WithoutRows(rows, gone, i + 1)

\* internal mutation deleteChunksBatch, run by the scheduler
DeleteChunksBatch ==
    /\ db.scheduled > 0
    /\ LET chunks == TakeRows(db.bookChunks, DELETE_BATCH_SIZE)
       IN  db' = [db EXCEPT !.bookChunks = WithoutRows(@, chunks, 1),
                            !.scheduled = IF Cardinality(chunks) = DELETE_BATCH_SIZE
                                          THEN @ ELSE @ - 1]
    /\ UNCHANGED <<html, extracted, callVars, path, run, served>>

\* ------------------------------------------------------------------------
\* The action processBook (convex/bookContent.ts); every runQuery and
\* runMutation is a transaction of its own
\* ------------------------------------------------------------------------
\* internal mutation updateProcessingStatus: ctx.db.patch throws when the row
\* is gone
StatusPatched(book, status, withTotal, totalChunks) ==
    [book EXCEPT !.processingStatus = status,
                 !.totalChunks = IF withTotal THEN totalChunks ELSE @]

\* runMutation(updateProcessingStatus) by the action: the row patched and the
\* write noted, then on to pc next; the mutation throws when the row is gone,
\* then on to pc thrown
UpdateProcessingStatus(status, withTotal, next, thrown) ==
    IF db.book.exists
    THEN /\ db' = [db EXCEPT !.book = StatusPatched(@, status, withTotal, run.totalChunks)]
         /\ run' = [run EXCEPT !.pc = next,
                               !.written = Append(@, [status |-> status,
                                                      withTotal |-> withTotal,
                                                      totalChunks |-> run.totalChunks])]
    ELSE /\ db' = db
         /\ run' = [run EXCEPT !.pc = thrown]

\* const book = await ctx.runQuery(api.books.getInternal, { bookId })
ProcessBookStart(callers) ==
    /\ run.pc = "idle"
    /\ \E caller \in callers :
          run' = [run EXCEPT !.caller = caller,
                             !.pc = IF ~db.book.exists THEN "thrown"
                                    ELSE IF ~db.book.storageId THEN "noStorage"
                                    ELSE "try"]
    /\ UNCHANGED <<html, extracted, callVars, path, db, served>>

\* if (!book.storageId): status "failed", then throw
FailNoStorage ==
    /\ run.pc = "noStorage"
    /\ UpdateProcessingStatus("failed", FALSE, "thrown", "thrown")
    /\ UNCHANGED <<html, extracted, callVars, path, served>>

\* try: status "processing"
SetProcessing ==
    /\ run.pc = "try"
    /\ UpdateProcessingStatus("processing", FALSE, "load", "catch")
    /\ UNCHANGED <<html, extracted, callVars, path, served>>

\* const fileBlob = await ctx.storage.get(book.storageId)
LoadFile ==
    /\ run.pc = "load"
    /\ run' = IF db.file.stored
              THEN [run EXCEPT !.pc = "stream",
                               !.paragraphCount = db.file.paragraphCount,
                               !.corrupt = db.file.corrupt]
              ELSE [run EXCEPT !.pc = "noBlob"]
    /\ UNCHANGED <<html, extracted, callVars, path, db, served>>

\* if (!fileBlob): status "failed", then throw into the catch clause
FailNoBlob ==
    /\ run.pc = "noBlob"
    /\ UpdateProcessingStatus("failed", FALSE, "catch", "catch")
    /\ UNCHANGED <<html, extracted, callVars, path, served>>

\* streamParagraphsFromEpub throws: the container cannot be opened
StreamThrows ==
    /\ run.pc = "stream"
    /\ run.corrupt
    /\ run' = [run EXCEPT !.pc = "catch"]
    /\ UNCHANGED <<html, extracted, callVars, path, db, served>>

\* queueChunk without chunkIndex += 1
QueueChunk_sameIndex(r, chunk, after) ==
    IF Len(chunk) = 0 THEN [r EXCEPT !.pc = after]
    ELSE LET pushed == Append(r.chunkBuffer, [chunkIndex |-> r.chunkIndex,
                                              paragraphs |-> chunk])
         IN  [r EXCEPT !.chunkBuffer = pushed,
                       !.totalChunks = @ + 1,
                       !.pc = IF Len(pushed) >= CHUNK_FLUSH_BATCH THEN "flush" ELSE after,
                       !.after = after]

\* queueChunk(paragraphs) up to its await: r is the run, after the pc to go
\* on with once the chunk is queued and, when the buffer is full, flushed
QueueChunk(r, chunk, after) ==
    IF Len(chunk) = 0 THEN [r EXCEPT !.pc = after]
    ELSE LET pushed == Append(r.chunkBuffer, [chunkIndex |-> r.chunkIndex,
                                              paragraphs |-> chunk])
         IN  [r EXCEPT !.chunkBuffer = pushed,
                       !.chunkIndex = @ + 1,
                       !.totalChunks = @ + 1,
                       !.pc = IF Len(pushed) >= CHUNK_FLUSH_BATCH THEN "flush" ELSE after,
                       !.after = after]

\* the sink handed to streamParagraphsFromEpub, called with the next
\* paragraph of the file
Handler ==
    /\ run.pc = "stream"
    /\ ~run.corrupt
    /\ run.emitted < run.paragraphCount
    /\ LET pushed == Append(run.chunkParagraphs, StoredParagraph(run.emitted + 1))
           r == [run EXCEPT !.emitted = @ + 1]
       IN  run' = IF Len(pushed) >= CHUNK_SIZE
                  THEN QueueChunk([r EXCEPT !.chunkParagraphs = <<>>], pushed, "stream")
                  ELSE [r EXCEPT !.chunkParagraphs = pushed]
    /\ UNCHANGED <<html, extracted, callVars, path, db, served>>

\* streamParagraphsFromEpub has returned: the paragraphs left over are queued
StreamReturns ==
    /\ run.pc = "stream"
    /\ ~run.corrupt
    /\ run.emitted = run.paragraphCount
    /\ run' = QueueChunk([run EXCEPT !.chunkParagraphs = <<>>], run.chunkParagraphs, "final")
    /\ UNCHANGED <<html, extracted, callVars, path, db, served>>

\* internal mutation insertChunks: one row for each chunk, in order
InsertedRows(rows, chunks) ==
    rows \o [i \in 1..Len(chunks) |-> [bookId |-> "b1",
                                       chunkIndex |-> chunks[i].chunkIndex,
                                       paragraphs |-> chunks[i].paragraphs]]

\* flushChunks past its length test: runMutation(insertChunks) with a copy
\* of the buffer, then chunkBuffer.length = 0
InsertBuffer(next) ==
    /\ db' = [db EXCEPT !.bookChunks = InsertedRows(@, run.chunkBuffer)]
    /\ run' = [run EXCEPT !.inserted = Append(@, run.chunkBuffer),
                          !.chunkBuffer = <<>>,
                          !.pc = next]

\* await flushChunks() in queueChunk
FlushChunks ==
    /\ run.pc = "flush"
    /\ InsertBuffer(run.after)
    /\ UNCHANGED <<html, extracted, callVars, path, served>>

\* await flushChunks() after the stream
FinalFlush ==
    /\ run.pc = "final"
    /\ IF Len(run.chunkBuffer) = 0
       THEN /\ run' = [run EXCEPT !.pc = "complete"]
            /\ db' = db
       ELSE InsertBuffer("complete")
    /\ UNCHANGED <<html, extracted, callVars, path, served>>

\* runMutation(insertChunks) fails: nothing is inserted, the error goes to
\* the catch clause
InsertChunksThrows ==
    /\ run.pc \in {"flush", "final"}
    /\ Len(run.chunkBuffer) > 0
    /\ run' = [run EXCEPT !.pc = "catch"]
    /\ UNCHANGED <<html, extracted, callVars, path, db, served>>

\* status "completed" with totalChunks
SetCompleted ==
    /\ run.pc = "complete"
    /\ UpdateProcessingStatus("completed", TRUE, "done", "catch")
    /\ UNCHANGED <<html, extracted, callVars, path, served>>

\* the catch clause throwing the error on without a status
Catch_rethrowOnly ==
    /\ run.pc = "catch"
    /\ run' = [run EXCEPT !.pc = "thrown"]
    /\ UNCHANGED <<html, extracted, callVars, path, db, served>>

\* catch (error): status "failed", then throw error
Catch ==
    /\ run.pc = "catch"
    /\ UpdateProcessingStatus("failed", FALSE, "thrown", "thrown")
    /\ UNCHANGED <<html, extracted, callVars, path, served>>

ProcessBookStep ==
    \/ FailNoStorage
    \/ SetProcessing
    \/ LoadFile
    \/ FailNoBlob
    \/ StreamThrows
    \/ Handler
    \/ StreamReturns
    \/ FlushChunks
    \/ FinalFlush
    \/ InsertChunksThrows
    \/ SetCompleted
    \/ Catch

\* the files a book may have been stored with
StoredFiles ==
    {NoFile}
    \cup [stored : {TRUE}, corrupt : {TRUE}, paragraphCount : {0}]
    \cup [stored : {TRUE}, corrupt : {FALSE}, paragraphCount : 0..MaxParagraphs]

\* a book that create has just inserted and scheduled processBook for
InitProcess ==
    /\ \E hasStorage \in BOOLEAN, file \in StoredFiles :
          /\ ~hasStorage => file = NoFile
          /\ db = [NoDb EXCEPT !.book = NewBook(hasStorage),
                               !.users = {"owner"},
                               !.file = file]
    /\ run = NoRun
    /\ served = {}
    /\ path = NoPath
    /\ EngineIdle

NextProcess == ProcessBookStart({"scheduler"}) \/ ProcessBookStep

SpecProcess == InitProcess /\ [][NextProcess]_vars

\* the files of the books that are removed while they are processed
RemovedFiles ==
    [stored : {TRUE}, corrupt : {TRUE}, paragraphCount : {0}]
    \cup [stored : {TRUE}, corrupt : {FALSE},
          paragraphCount : {1, CHUNK_SIZE * CHUNK_FLUSH_BATCH + 1, MaxParagraphs}]

\* a book with a stored file that create has just inserted
InitRemove ==
    /\ \E file \in RemovedFiles :
          db = [NoDb EXCEPT !.book = NewBook(TRUE),
                            !.users = {"owner"},
                            !.file = file]
    /\ run = NoRun
    /\ served = {}
    /\ path = NoPath
    /\ EngineIdle

\* processBook of a book that has a storage id, remove called by anybody at
\* any moment, and the scheduler running deleteChunksBatch
NextRemove ==
    \/ ProcessBookStart({"scheduler"})
    \/ SetProcessing
    \/ LoadFile
    \/ FailNoBlob
    \/ StreamThrows
    \/ Handler
    \/ StreamReturns
    \/ FlushChunks
    \/ FinalFlush
    \/ InsertChunksThrows
    \/ SetCompleted
    \/ Catch
    \/ Remove
    \/ DeleteChunksBatch

SpecRemove == InitRemove /\ [][NextRemove]_vars

\* the files of the books the public functions are called on
ServedFiles ==
    {NoFile}
    \cup [stored : {TRUE}, corrupt : {TRUE}, paragraphCount : {0}]
    \cup [stored : {TRUE}, corrupt : {FALSE},
          paragraphCount : {1, CHUNK_SIZE * CHUNK_FLUSH_BATCH}]

\* a book that create has inserted for its owner; the other user may or may
\* not have a row in users yet
InitAccess ==
    /\ \E hasStorage \in BOOLEAN, file \in ServedFiles, others \in SUBSET {"other"} :
          /\ hasStorage <=> file # NoFile
          /\ db = [NoDb EXCEPT !.book = NewBook(hasStorage),
                               !.users = {"owner"} \cup others,
                               !.file = file]
    /\ run = NoRun
    /\ served = {}
    /\ path = NoPath
    /\ EngineIdle

\* every public function of the book called by anybody, in any order
NextAccess ==
    \/ Get
    \/ GetInternal
    \/ GetFileUrl
    \/ GetProcessingStatus
    \/ GetChunks
    \/ TouchOpen
    \/ SaveReadingPosition
    \/ Remove
    \/ DeleteChunksBatch
    \/ ProcessBookStart(Identities)
    \/ ProcessBookStep

SpecAccess == InitAccess /\ [][NextAccess]_vars

\* ------------------------------------------------------------------------
\* Properties
\* ------------------------------------------------------------------------
\* the paragraphs a flow entry contributes when it is processed
Extractable(entry) ==
    IF entry.id # "" /\ entry.load = "ok" /\ entry.html # <<>>
    THEN Len(extractParagraphsFromChapter(entry.html).paragraphs)
    ELSE 0

RECURSIVE ExtractableUpTo(_, _)
ExtractableUpTo(flow, n) ==
    IF n = 0 THEN 0 ELSE ExtractableUpTo(flow, n - 1) + Extractable(flow[n])

\* the number N of extractable paragraphs of a book
TotalParagraphs(book) == ExtractableUpTo(book.flow, Len(book.flow))

\* a flow entry whose load fails, whose markup is empty or which has no paragraph
BadDocument(entry) == entry.id # "" /\ Extractable(entry) = 0

Done(c) == pc[c] = "done"

\* C1: the ids handed to the sink are 1, 2, 3, ... in call order, and the
\* returned paragraphCount is the number of sink calls.
C1_DenseIds ==
    \A c \in Calls :
        /\ \A i \in 1..Len(handlerCalls[c]) : handlerCalls[c][i].id = i
        /\ Done(c) => result[c].paragraphCount = Len(handlerCalls[c])

\* a finished run over a book whose first document failed and whose second
\* one gave at least two paragraphs
C1_Witness ==
    /\ Done(1)
    /\ Len(epub[1].flow) = 2
    /\ BadDocument(epub[1].flow[1])
    /\ Len(handlerCalls[1]) >= 2

\* C2: every chapter of a returned result starts at a paragraph that was
\* emitted: 1 <= startParagraphId <= paragraphCount.
C2_ChapterStartsInRange ==
    \A c \in Calls :
        Done(c) =>
            \A i \in 1..Len(result[c].chapters) :
                /\ 1 <= result[c].chapters[i].startParagraphId
                /\ result[c].chapters[i].startParagraphId <= result[c].paragraphCount

\* a result with a chapter that starts at the very last paragraph
C2_Witness ==
    /\ Done(1)
    /\ result[1].paragraphCount >= 2
    /\ \E i \in 1..Len(result[1].chapters) :
          result[1].chapters[i].startParagraphId = result[1].paragraphCount

\* C3: the returned chapter list is sorted ascending by startParagraphId and
\* the index of every chapter is its 0-based position.
C3_SortedAndIndexed ==
    \A c \in Calls :
        Done(c) =>
            \A i \in 1..Len(result[c].chapters) :
                /\ result[c].chapters[i].index = i - 1
                /\ i < Len(result[c].chapters) =>
                      result[c].chapters[i].startParagraphId
                          <= result[c].chapters[i + 1].startParagraphId

\* the text-matching rebuild found two chapters in the reverse of their
\* order in the table of contents
C3_Witness ==
    /\ Done(1)
    /\ tier3Ran[1]
    /\ \E i, j \in 1..Len(result[1].chapters) :
          /\ i < j
          /\ result[1].chapters[i].startParagraphId < result[1].chapters[j].startParagraphId
          /\ \E a, b \in 1..Len(tocEntries[1]) :
                /\ a < b
                /\ tocEntries[1][a].title = result[1].chapters[j].title
                /\ tocEntries[1][b].title = result[1].chapters[i].title

\* C4: a returned result with paragraphCount > 0 has at least one chapter.
C4_NonEmptyOutline ==
    \A c \in Calls :
        (Done(c) /\ result[c].paragraphCount > 0) => Len(result[c].chapters) >= 1

\* C5: no two chapters carry the same normalized title, at any moment of the
\* traversal and in the returned result.
C5_UniqueTitles ==
    \A c \in Calls :
        /\ \A i, j \in 1..Len(chapters[c]) :
              i # j => normalizeForDedup(chapters[c][i].title)
                           # normalizeForDedup(chapters[c][j].title)
        /\ Done(c) => result[c].chapters = chapters[c]

\* a document-level title was suppressed because an earlier chapter carries
\* another spelling of the same normalized title
C5_Witness ==
    /\ Done(1)
    /\ ~returnedAtCap[1]
    /\ ~tier3Ran[1]
    /\ \E d \in 1..Len(epub[1].flow) :
          /\ Extractable(epub[1].flow[d]) > 0
          /\ MapHas(tocIdMap[1], epub[1].flow[d].id)
          /\ \A i \in 1..Len(result[1].chapters) :
                result[1].chapters[i].title # tocIdMap[1][epub[1].flow[d].id]
          /\ \E i \in 1..Len(result[1].chapters) :
                normalizeForDedup(result[1].chapters[i].title)
                    = normalizeForDedup(tocIdMap[1][epub[1].flow[d].id])

\* C6: with maxParagraphs = k the sink is never called more than k times; a
\* book with N > k paragraphs returns paragraphCount = k after exactly k sink
\* calls, and a book with N <= k paragraphs has all N emitted.
C6_CapRespected ==
    \A c \in Calls :
        LET N == TotalParagraphs(epub[c])
            k == options[c].maxParagraphs
        IN  /\ options[c].defined => Len(handlerCalls[c]) <= k
            /\ Done(c) =>
                  IF options[c].defined /\ N > k
                  THEN Len(handlerCalls[c]) = k /\ result[c].paragraphCount = k
                  ELSE Len(handlerCalls[c]) = N /\ result[c].paragraphCount = N

\* a run capped at 2 over a book with more than 2 paragraphs has returned
C6_Witness ==
    /\ Done(1)
    /\ options[1].defined
    /\ options[1].maxParagraphs = 2
    /\ TotalParagraphs(epub[1]) > 2
    /\ returnedAtCap[1]

RECURSIVE RetainedFrom(_, _)
\* the retained elements of a document, in document order
RetainedFrom(doc, j) ==
    IF j > Len(doc) THEN <<>>
    ELSE (IF Retained(doc, j) THEN <<j>> ELSE <<>>) \o RetainedFrom(doc, j + 1)

\* the values in a sequence
Range(seq) == {seq[i] : i \in 1..Len(seq)}

\* C7: within one document no anchor is listed twice, neither in two
\* paragraphs nor in one; the first retained element for which an anchor is
\* collected keeps it.
C7_AnchorExclusive ==
    extracted.done =>
        LET ps == extracted.paragraphs
            ret == RetainedFrom(html, 1)
        IN  /\ \A p, q \in 1..Len(ps) :
                  \A i \in 1..Len(ps[p].anchors), j \in 1..Len(ps[q].anchors) :
                      (p # q \/ i # j) => ps[p].anchors[i] # ps[q].anchors[j]
            /\ Len(ret) > 0 =>
                  /\ Len(ps) = Len(ret)
                  /\ \A p \in 1..Len(ret) :
                        \A id \in Range(AnchorCandidates(html, ret[p])) \ {<<>>} :
                            id \in Range(ps[p].anchors)
                                <=> ~\E q \in 1..(p - 1) :
                                        id \in Range(AnchorCandidates(html, ret[q]))

\* two retained elements of one document lay claim to the same anchor
C7_Witness ==
    /\ extracted.done
    /\ Len(extracted.paragraphs) = 2
    /\ LET ret == RetainedFrom(html, 1)
       IN  \E id \in Range(AnchorCandidates(html, ret[1])) \ {<<>>} :
               id \in Range(AnchorCandidates(html, ret[2]))

\* C8: at most one sink call is in flight, the call in flight is the last
\* one made and the extraction is parked at its await until it resolves;
\* the sink calls resolve in ascending id order.
C8_OneSinkInFlight ==
    \A c \in Calls :
        /\ Cardinality(handlerPending[c]) <= 1
        /\ Len(handlerDone[c]) + Cardinality(handlerPending[c]) = Len(handlerCalls[c])
        /\ \A i \in 1..Len(handlerDone[c]) : handlerDone[c][i] = i
        /\ handlerPending[c] # {} =>
              /\ pc[c] = "sink"
              /\ handlerPending[c] = {handlerCalls[c][Len(handlerCalls[c])].id}

\* the second sink call is in flight and the first one has resolved
C8_Witness ==
    /\ handlerPending[1] = {2}
    /\ handlerDone[1] = <<1>>

\* C9: a step taken at a document that fails to load, is empty or has no
\* paragraph only moves the loop to the next document (no paragraph, no id,
\* no chapter, no error); a run that is not cut by the cap emits the
\* paragraphs of every good document.
C9_BadDocumentSkipped ==
    /\ [][\A c \in Calls :
            (/\ AtEntry(c)
             /\ BadDocument(Entry(c))
             /\ <<pc[c], flowIdx[c]>>' # <<pc[c], flowIdx[c]>>)
            => /\ pc'[c] = "flow"
               /\ flowIdx'[c] = flowIdx[c] + 1
               /\ count'[c] = count[c]
               /\ chapters'[c] = chapters[c]
               /\ seenChapterTitles'[c] = seenChapterTitles[c]
               /\ collectedParagraphs'[c] = collectedParagraphs[c]
               /\ handlerCalls'[c] = handlerCalls[c]]_vars
    /\ [](\A c \in Calls :
            (Done(c) /\ ~returnedAtCap[c]) =>
                /\ flowIdx[c] = Len(epub[c].flow) + 1
                /\ count[c] = TotalParagraphs(epub[c]))

\* a finished run whose first document had no paragraph although navigation
\* entries target it by id and by file, and whose second document was emitted
C9_Witness ==
    /\ Done(1)
    /\ ~returnedAtCap[1]
    /\ Len(epub[1].flow) = 2
    /\ BadDocument(epub[1].flow[1])
    /\ epub[1].flow[1].html # <<>>
    /\ MapHas(tocIdMap[1], epub[1].flow[1].id)
    /\ MapHas(tocFileMap[1], normalizePath(epub[1].flow[1].href))
    /\ Extractable(epub[1].flow[2]) > 0
    /\ count[1] > 0

Locals(c) ==
    <<count[c], seenChapterTitles[c], tocEntries[c], tocIdMap[c], tocAnchorMap[c],
      tocFileMap[c], chapters[c], collectedParagraphs[c], fileChapters[c],
      handlerCalls[c], result[c]>>

\* C11: two extractions of different books with interleaved steps: a step
\* of one call leaves the counter, the title set, the lookup maps and the
\* chapters of the other call as they were, and each call hands its sink the
\* paragraphs and returns the result of the same extraction run alone.
C11_NoInterference ==
    /\ [][/\ pc'[1] # pc[1] => Locals(2)' = Locals(2)
          /\ pc'[2] # pc[2] => Locals(1)' = Locals(1)]_vars
    /\ [](/\ Done(1) => handlerCalls[1] = handlerCalls[3] /\ result[1] = result[3]
          /\ Done(2) => handlerCalls[2] = handlerCalls[4] /\ result[2] = result[4])

\* both calls are parked at a sink call at the same moment, call 1 at its
\* second paragraph and call 2 at its first, each with titles of its own
C11_Witness ==
    /\ pc[1] = "sink"
    /\ pc[2] = "sink"
    /\ count[1] = 2
    /\ count[2] = 1
    /\ seenChapterTitles[1] # {}
    /\ seenChapterTitles[2] # {}
    /\ seenChapterTitles[1] # seenChapterTitles[2]

\* C12: extractParagraphsFromEpub returns the paragraphs its streaming call
\* passed to the sink, in the same order, and the chapter list that call
\* returned; the length of the paragraphs array is the paragraphCount.
C12_BufferedIsStream ==
    \A c \in Calls :
        buffered[c].done =>
            /\ buffered[c].paragraphs = handlerCalls[c]
            /\ buffered[c].chapters = result[c].chapters
            /\ Len(buffered[c].paragraphs) = result[c].paragraphCount

\* the buffered call has returned three paragraphs and two chapters
C12_Witness ==
    /\ buffered[1].done
    /\ Len(buffered[1].paragraphs) >= 3
    /\ Len(buffered[1].chapters) >= 2

\* C13: the return at the cap keeps every chapter recorded so far: the
\* chapters of the earlier documents stay where they are, unchanged, and the
\* anchor chapters of the document being processed follow them, in the order
\* found, each with its title and the id of its paragraph.
C13_CapKeepsChapters ==
    [][\A c \in Calls :
          (pc[c] = "sink" /\ pc'[c] = "done") =>
              /\ Len(result'[c].chapters) = Len(chapters[c]) + Len(fileChapters[c])
              /\ \A i \in 1..Len(chapters[c]) : result'[c].chapters[i] = chapters[c][i]
              /\ \A j \in 1..Len(fileChapters[c]) :
                    /\ result'[c].chapters[Len(chapters[c]) + j].title
                           = fileChapters[c][j].title
                    /\ result'[c].chapters[Len(chapters[c]) + j].startParagraphId
                           = fileChapters[c][j].paragraphId]_vars

\* a run was cut in its second document: the result holds a chapter of the
\* first document and an anchor chapter of the second
C13_Witness ==
    /\ Done(1)
    /\ returnedAtCap[1]
    /\ Len(fileChapters[1]) >= 1
    /\ Len(result[1].chapters) > Len(fileChapters[1])
    /\ flowIdx[1] = 2

\* the chapter of STEP 4
DefaultChapter == [index |-> 0, title |-> FullBook, startParagraphId |-> 1]

\* at the end of the loop over epub.flow of call c, Tiers 1-3 leave no
\* chapter: the text matching is due and no collected paragraph matches the
\* title of any navigation entry, or it is not due and Tiers 1-2 found none
NoChapterLeft(c) ==
    IF NeedsTextMatch(chapters[c], tocEntries[c], collectedParagraphs[c])
    THEN \A e \in 1..Len(tocEntries[c]), k \in 1..Len(collectedParagraphs[c]) :
             ~textMatchesTitle(collectedParagraphs[c][k].text, tocEntries[c][e].title)
    ELSE Len(chapters[c]) = 0

\* C14: at the end of a full traversal, when Tiers 1-3 leave no chapter and
\* a paragraph was emitted the result is the single chapter (0, "Full book",
\* 1); when no paragraph was emitted the chapter list is empty; when Tiers
\* 1-3 leave a chapter the result holds no "Full book" chapter; no returned
\* result holds a "Full book" chapter next to another chapter.
C14_FullBookFallback ==
    /\ [](\A c \in Calls :
            (Done(c) /\ \E i \in 1..Len(result[c].chapters) :
                            result[c].chapters[i].title = FullBook)
                => result[c].chapters = <<DefaultChapter>>)
    /\ [][\A c \in Calls :
             (pc[c] = "flow" /\ pc'[c] = "done") =>
                 /\ (NoChapterLeft(c) /\ count[c] > 0)
                       => result'[c].chapters = <<DefaultChapter>>
                 /\ count[c] = 0 => result'[c].chapters = <<>>
                 /\ ~NoChapterLeft(c) =>
                       /\ Len(result'[c].chapters) >= 1
                       /\ \A i \in 1..Len(result'[c].chapters) :
                             result'[c].chapters[i].title # FullBook]_vars

\* the text matching discarded a document-level chapter and matched nothing:
\* the result is the default chapter
C14_Witness ==
    /\ Done(1)
    /\ tier3Ran[1]
    /\ count[1] >= 2
    /\ result[1].chapters = <<DefaultChapter>>

\* the recall check of call c fails: fewer chapters than half the entries
\* of the index, and more than two entries
RecallFails(c) ==
    /\ 2 * Len(chapters[c]) < Len(tocEntries[c])
    /\ Len(tocEntries[c]) > 2

\* C15 as claimed: the text-matching fallback runs if and only if, at the
\* end of the traversal, the chapters found are fewer than half the
\* navigation entries and there are more than two navigation entries; it
\* never runs before the traversal of all documents has finished.
C15_Tier3IffRecallFails ==
    /\ [](\A c \in Calls :
            tier3Ran[c] => Done(c) /\ ~returnedAtCap[c] /\ flowIdx[c] > Len(epub[c].flow))
    /\ [][\A c \in Calls :
             (pc[c] = "flow" /\ pc'[c] = "done") => (tier3Ran'[c] <=> RecallFails(c))]_vars

\* C15 as amended: the text-matching fallback runs if and only if, at the
\* end of the traversal, the chapters found are fewer than half the entries
\* of the index (navigation entries with a title and an href), there are
\* more than two such entries and at least one paragraph was emitted; it
\* never runs before the traversal of all documents has finished.
C15_Tier3IffRecallFailsAndText ==
    /\ [](\A c \in Calls :
            tier3Ran[c] => Done(c) /\ ~returnedAtCap[c] /\ flowIdx[c] > Len(epub[c].flow))
    /\ [][\A c \in Calls :
             (pc[c] = "flow" /\ pc'[c] = "done") =>
                 (tier3Ran'[c] <=> (RecallFails(c) /\ count[c] > 0))]_vars

\* the fallback ran on a book of two documents with three entries in the
\* index, after Tiers 1-2 had found one chapter
C15_Witness ==
    /\ Done(1)
    /\ tier3Ran[1]
    /\ Len(tocEntries[1]) = 3
    /\ Len(epub[1].flow) = 2
    /\ count[1] >= 3

\* the collected paragraphs of call c whose text matches the title of entry e
Matching(c, e) ==
    {k \in 1..Len(collectedParagraphs[c]) :
        textMatchesTitle(collectedParagraphs[c][k].text, tocEntries[c][e].title)}

\* the entries of the index of call c that give a chapter in the rebuild:
\* a paragraph matches, and no earlier entry has the same normalized title
Contributing(c) ==
    {e \in 1..Len(tocEntries[c]) :
        /\ Matching(c, e) # {}
        /\ \A d \in 1..(e - 1) :
              normalizeForDedup(tocEntries[c][d].title)
                  # normalizeForDedup(tocEntries[c][e].title)}

\* the lowest id among the paragraphs matching entry e
LowestMatch(c, e) ==
    CHOOSE id \in {collectedParagraphs[c][k].id : k \in Matching(c, e)} :
        \A k \in Matching(c, e) : id <= collectedParagraphs[c][k].id

Last(S) == CHOOSE i \in S : \A j \in S : i >= j

\* the navigation entries of call c that carry a title and the id of the
\* document being processed
EntriesById(c) ==
    {i \in 1..Len(epub[c].toc) :
        /\ NormalizeWs(epub[c].toc[i].title) # <<>>
        /\ epub[c].toc[i].id = Entry(c).id}

\* the navigation entries of call c that carry a title and an href without
\* anchor whose normalized path or filename is key
EntriesByFile(c, key) ==
    {i \in 1..Len(epub[c].toc) :
        /\ NormalizeWs(epub[c].toc[i].title) # <<>>
        /\ epub[c].toc[i].href # <<>>
        /\ SplitPart(epub[c].toc[i].href, "#", 1) = <<>>
        /\ \/ normalizePath(SplitPart(epub[c].toc[i].href, "#", 0)) = key
           \/ getFilename(SplitPart(epub[c].toc[i].href, "#", 0)) = key}

\* the title of navigation entry i of call c as the index holds it
TitleOf(c, i) == NormalizeWs(epub[c].toc[i].title)

\* the document-level title by the priority (a), (b), (c), read from the
\* navigation entries and the document themselves; <<>> when there is none
PriorityTitle(c) ==
    IF EntriesById(c) # {} THEN TitleOf(c, Last(EntriesById(c)))
    ELSE IF EntriesByFile(c, normalizePath(Entry(c).href)) # {}
         THEN TitleOf(c, Last(EntriesByFile(c, normalizePath(Entry(c).href))))
    ELSE IF EntriesByFile(c, getFilename(Entry(c).href)) # {}
         THEN TitleOf(c, Last(EntriesByFile(c, getFilename(Entry(c).href))))
    ELSE extractHeadingFromChapter(Entry(c).html)

\* the id of the first paragraph of the document call c has just emitted
FirstParagraphId(c) ==
    collectedParagraphs[c][Len(collectedParagraphs[c])
                           - Len(chapterContent[c].paragraphs) + 1].id

\* C17: at the end of a document that has an anchor chapter, only its
\* anchor chapters are added; at the end of a document without one, at most
\* one chapter is added: it starts at the first paragraph of the document
\* and carries the title chosen by the priority (a) id, (b) file without
\* anchor, (c) heading, and it is added only when that title exists and its
\* normalized form is not used yet.
C17_DocumentLevelMatch ==
    [][\A c \in Calls :
          (pc[c] = "para" /\ pc'[c] = "flow") =>
              /\ SubSeq(chapters'[c], 1, Len(chapters[c])) = chapters[c]
              /\ IF Len(fileChapters[c]) > 0
                 THEN /\ Len(chapters'[c]) = Len(chapters[c]) + Len(fileChapters[c])
                      /\ \A j \in 1..Len(fileChapters[c]) :
                            /\ chapters'[c][Len(chapters[c]) + j].title
                                   = fileChapters[c][j].title
                            /\ chapters'[c][Len(chapters[c]) + j].startParagraphId
                                   = fileChapters[c][j].paragraphId
                 ELSE IF /\ PriorityTitle(c) # <<>>
                         /\ normalizeForDedup(PriorityTitle(c)) \notin seenChapterTitles[c]
                      THEN chapters'[c] = Append(chapters[c],
                                             [index |-> Len(chapters[c]),
                                              title |-> PriorityTitle(c),
                                              startParagraphId |-> FirstParagraphId(c)])
                      ELSE chapters'[c] = chapters[c]]_vars

\* the first document of two paragraphs got its chapter from the navigation
\* entry with its id although it has a heading of its own
C17_Witness ==
    /\ pc[1] = "flow"
    /\ flowIdx[1] = 2
    /\ count[1] = 2
    /\ Len(fileChapters[1]) = 0
    /\ Len(chapters[1]) = 1
    /\ chapters[1][1].startParagraphId = 1
    /\ chapterContent[1].heading # <<>>
    /\ chapters[1][1].title # chapterContent[1].heading
    /\ MapHas(tocIdMap[1], epub[1].flow[1].id)
    /\ MapHas(tocFileMap[1], normalizePath(epub[1].flow[1].href))

\* the navigation entries of call c that carry a title and an href with an
\* anchor whose normalized path or filename is key
EntriesByAnchorFile(c, key) ==
    {i \in 1..Len(epub[c].toc) :
        /\ NormalizeWs(epub[c].toc[i].title) # <<>>
        /\ epub[c].toc[i].href # <<>>
        /\ SplitPart(epub[c].toc[i].href, "#", 1) # <<>>
        /\ \/ normalizePath(SplitPart(epub[c].toc[i].href, "#", 0)) = key
           \/ getFilename(SplitPart(epub[c].toc[i].href, "#", 0)) = key}

\* the key the anchors of the document being processed are looked up under:
\* its normalized path when anchors are indexed there, else its filename
AnchorKey(c) ==
    IF EntriesByAnchorFile(c, normalizePath(Entry(c).href)) # {}
    THEN normalizePath(Entry(c).href)
    ELSE getFilename(Entry(c).href)

\* the navigation entries that map anchor a of the document being processed
EntriesForAnchor(c, a) ==
    {i \in EntriesByAnchorFile(c, AnchorKey(c)) :
        SplitPart(epub[c].toc[i].href, "#", 1) = a}

\* the title anchor a is mapped to, <<>> when it is not mapped
AnchorTitle(c, a) ==
    IF EntriesForAnchor(c, a) = {} THEN <<>>
    ELSE TitleOf(c, Last(EntriesForAnchor(c, a)))

\* the positions in anchors that record a chapter: the anchor is mapped to a
\* title whose normalized form is neither used before the paragraph nor the
\* form of the title of an earlier anchor of the paragraph
Recording(c, anchors) ==
    {k \in 1..Len(anchors) :
        /\ AnchorTitle(c, anchors[k]) # <<>>
        /\ normalizeForDedup(AnchorTitle(c, anchors[k])) \notin seenChapterTitles[c]
        /\ \A j \in 1..(k - 1) :
              AnchorTitle(c, anchors[j]) # <<>> =>
                  normalizeForDedup(AnchorTitle(c, anchors[j]))
                      # normalizeForDedup(AnchorTitle(c, anchors[k]))}

\* the anchors of the paragraph call c is about to emit
NextAnchors(c) == chapterContent[c].paragraphs[paraIdx[c]].anchors

\* C18: when a paragraph is emitted, its anchors are taken in order; every
\* anchor mapped (under the normalized path of the document, else its
\* filename) to a title whose normalized form is not used yet records a
\* chapter with that title at the id of the paragraph and the title becomes
\* used; any other anchor records nothing.
C18_AnchorMatch ==
    [][\A c \in Calls :
          (pc[c] = "para" /\ pc'[c] = "sink") =>
              /\ SubSeq(fileChapters'[c], 1, Len(fileChapters[c])) = fileChapters[c]
              /\ Len(fileChapters'[c])
                     = Len(fileChapters[c]) + Cardinality(Recording(c, NextAnchors(c)))
              /\ \A k \in Recording(c, NextAnchors(c)) :
                    fileChapters'[c][Len(fileChapters[c])
                                     + Cardinality({j \in Recording(c, NextAnchors(c)) : j <= k})]
                        = [paragraphId |-> handlerCalls'[c][Len(handlerCalls'[c])].id,
                           title |-> AnchorTitle(c, NextAnchors(c)[k])]
              /\ seenChapterTitles'[c]
                     = seenChapterTitles[c]
                         \cup {normalizeForDedup(AnchorTitle(c, NextAnchors(c)[k])) :
                                  k \in Recording(c, NextAnchors(c))}]_vars

\* the third paragraph of the book carries two anchors: both are mapped,
\* the first to a title used by the first document, the second to a new one
C18_Witness ==
    /\ pc[1] = "sink"
    /\ count[1] = 3
    /\ Len(chapterContent[1].paragraphs[paraIdx[1]].anchors) = 2
    /\ Len(fileChapters[1]) = 1
    /\ fileChapters[1][1].paragraphId = 3
    /\ fileChapters[1][1].title = AnchorTitle(1, chapterContent[1].paragraphs[paraIdx[1]].anchors[2])
    /\ AnchorTitle(1, chapterContent[1].paragraphs[paraIdx[1]].anchors[1]) # <<>>
    /\ Len(chapters[1]) >= 1
    /\ AnchorKey(1) # normalizePath(Entry(1).href)

\* the heading candidates of a document: h1..h4 and the two title classes
Candidates(doc) ==
    {j \in 1..Len(doc) : doc[j].tag \in HeadingTags \/ doc[j].cls \in HeadingClasses}

\* the candidates that qualify: normalized text not empty, lowercased form
\* not in the ignore-list
Qualifying(doc) ==
    {j \in Candidates(doc) :
        /\ NormalizeWs(ElementText(doc, j)) # <<>>
        /\ ToLowerCase(NormalizeWs(ElementText(doc, j))) \notin IGNORED_HEADINGS}

\* C19: extractHeadingFromChapter returns the normalized text of the first
\* qualifying candidate in document order, and null (here <<>>) when no
\* candidate qualifies; what it returns is never in the ignore-list, and no
\* chapter taken from a heading carries an ignore-listed title.
C19_HeadingNotIgnored ==
    /\ extracted.done =>
          /\ IF Qualifying(html) = {} THEN extracted.heading = <<>>
             ELSE extracted.heading
                      = NormalizeWs(ElementText(html,
                            CHOOSE j \in Qualifying(html) : \A k \in Qualifying(html) : j <= k))
          /\ ToLowerCase(extracted.heading) \notin IGNORED_HEADINGS
    /\ \A c \in Calls :
          /\ \A i \in 1..Len(chapters[c]) :
                ToLowerCase(chapters[c][i].title) \notin IGNORED_HEADINGS
          /\ \A i \in 1..Len(result[c].chapters) :
                ToLowerCase(result[c].chapters[i].title) \notin IGNORED_HEADINGS

\* the first candidate of the document is an ignore-listed h1, the second
\* one qualifies: the heading and the title of the chapter are the second
C19_Witness ==
    /\ extracted.done
    /\ Done(1)
    /\ Len(html) = 2
    /\ html[1].tag = "h1"
    /\ ToLowerCase(NormalizeWs(ElementText(html, 1))) \in IGNORED_HEADINGS
    /\ extracted.heading = NormalizeWs(ElementText(html, 2))
    /\ extracted.heading # <<>>
    /\ Len(result[1].chapters) = 1
    /\ result[1].chapters[1].title = extracted.heading

\* t has no white space at either end and no two white-space characters
\* in a row
WsNormalized(t) ==
    /\ Len(t) > 0 => ~IsSpace(t[1]) /\ ~IsSpace(t[Len(t)])
    /\ \A i \in 1..(Len(t) - 1) : ~(IsSpace(t[i]) /\ IsSpace(t[i + 1]))

\* C20: every text handed to the sink is whitespace-normalized and at least
\* two characters long; a document whose element pass retains nothing gives
\* one paragraph, the normalized text of the whole document with no anchor,
\* when that text has at least two characters, and no paragraph otherwise.
C20_ParagraphTexts ==
    /\ \A c \in Calls :
          \A i \in 1..Len(handlerCalls[c]) :
              /\ WsNormalized(handlerCalls[c][i].text)
              /\ Len(handlerCalls[c][i].text) >= 2
    /\ (extracted.done /\ \A j \in 1..Len(html) : ~Retained(html, j)) =>
          IF Len(NormalizeWs(RootText(html))) >= 2
          THEN extracted.paragraphs
                   = <<[text |-> NormalizeWs(RootText(html)), anchors |-> <<>>]>>
          ELSE extracted.paragraphs = <<>>

\* a document of a one-character p with an id and an element that is no
\* content element: nothing is retained, and the sink got the text of the
\* whole document
C20_Witness ==
    /\ extracted.done
    /\ Done(1)
    /\ Len(html) = 2
    /\ \A j \in 1..Len(html) : ~Retained(html, j)
    /\ html[1].tag = "p"
    /\ html[1].id # <<>>
    /\ Len(html[1].text) = 1
    /\ Len(handlerCalls[1]) = 1
    /\ handlerCalls[1][1].text = NormalizeWs(RootText(html))
    /\ extracted.paragraphs[1].anchors = <<>>

\* p stands in s at position pos
At(s, pos, p) == pos + Len(p) - 1 <= Len(s) /\ SubSeq(s, pos, pos + Len(p) - 1) = p

\* p stands in s at position pos, whatever the case of the letters of s
AtNoCase(s, pos, p) ==
    pos + Len(p) - 1 <= Len(s) /\ ToLowerCase(SubSeq(s, pos, pos + Len(p) - 1)) = p

\* the number of "../" that stand in a row in s from position pos on
DotDotRun(s, pos) ==
    CHOOSE k \in 0..Len(s) :
        /\ \A j \in 0..(k - 1) : At(s, pos + 3 * j, DotDotSlash)
        /\ ~At(s, pos + 3 * k, DotDotSlash)

\* the number of characters the four prefix rules take off href, each rule
\* looking at what the rules before it left
StrippedLen(href) ==
    LET a == IF At(href, 1, DotSlash) THEN 2 ELSE 0
        b == 3 * DotDotRun(href, a + 1)
        c == IF AtNoCase(href, a + b + 1, OebpsSlash) THEN 6 ELSE 0
        d == IF AtNoCase(href, a + b + c + 1, OpsSlash) THEN 4 ELSE 0
    IN  a + b + c + d

C30_NormalizeIdempotent ==
    /\ path.again => path.renormalized = path.normalized
    /\ path.done =>
          /\ ~StartsWith(path.normalized, DotSlash)
          /\ ~StartsWith(path.normalized, DotDotSlash)
          /\ ~StartsWith(path.normalized, OebpsSlash)
          /\ ~StartsWith(path.normalized, OpsSlash)
          /\ \A i \in 1..Len(path.normalized) :
                /\ path.normalized[i] # "\\"
                /\ LowerChar(path.normalized[i]) = path.normalized[i]

\* C22: an element kept as a paragraph has no ancestor among the visited
\* kinds of element that is kept as a paragraph too.
C22_NoWrapperAndChild ==
    extracted.done =>
        \A j \in 1..Len(html) :
            \A a \in 1..Len(html) :
                (/\ IsAncestor(html, a, j)
                 /\ html[a].tag \in ContentTags
                 /\ Retained(html, j)) => ~Retained(html, a)

\* C25: no two chapters of a returned result start at the same paragraph.
C25_DistinctStarts ==
    \A c \in Calls :
        Done(c) =>
            \A i \in 1..Len(result[c].chapters) :
                \A j \in 1..Len(result[c].chapters) :
                    i # j => result[c].chapters[i].startParagraphId
                                 # result[c].chapters[j].startParagraphId

\* C26: when the text-matching fallback runs, the returned result has at
\* least as many chapters as Tiers 1-2 had recorded, and when they had
\* recorded a chapter the result is not the default chapter alone.
C26_FallbackNeverWorse ==
    [][\A c \in Calls :
          (pc[c] = "flow" /\ pc'[c] = "done" /\ tier3Ran'[c]) =>
              /\ Len(result'[c].chapters) >= Len(chapters[c])
              /\ Len(chapters[c]) >= 1 => result'[c].chapters # <<DefaultChapter>>]_vars

\* call c has left the loop over epub.flow and has not yet entered STEP 3:
\* chapters[c] holds what Tiers 1-2 recorded
TraversalOver(c) == pc[c] = "flow" /\ flowIdx[c] > Len(epub[c].flow)

\* every chapter of chs stands in among with its title and its start
AllAmong(chs, among) ==
    \A i \in 1..Len(chs) :
        \E j \in 1..Len(among) :
            /\ among[j].title = chs[i].title
            /\ among[j].startParagraphId = chs[i].startParagraphId

\* the first n elements of s, all of them when there are fewer
FirstOf(s, n) == SubSeq(s, 1, IF n < Len(s) THEN n ELSE Len(s))

\* C24: the paragraphs of the run with maxParagraphs = k are the first k
\* paragraphs of the run without a cap, and every chapter the capped run
\* returns is, by title and start, among those Tiers 1-2 record in the run
\* without a cap.
C24_CappedIsPrefix ==
    (Done(1) /\ TraversalOver(2)) =>
        /\ handlerCalls[1] = FirstOf(handlerCalls[2], options[1].maxParagraphs)
        /\ AllAmong(result[1].chapters, chapters[2])

\* C24 (amended): the paragraphs of the run with maxParagraphs = k are the
\* first k paragraphs of the run without a cap, all of them when the book
\* has fewer than k; when the book has at least k paragraphs every chapter
\* of the capped run is, by title and start, among those Tiers 1-2 record
\* in the run without a cap; when it has fewer, the capped run returns the
\* result of the run without a cap.
C24_CappedIsPrefixWhenCut ==
    /\ (Done(1) /\ TraversalOver(2)) =>
          /\ handlerCalls[1] = FirstOf(handlerCalls[2], options[1].maxParagraphs)
          /\ Len(handlerCalls[2]) >= options[1].maxParagraphs =>
                AllAmong(result[1].chapters, chapters[2])
    /\ (Done(1) /\ Done(2) /\ Len(handlerCalls[2]) < options[1].maxParagraphs) =>
          result[1] = result[2]

\* the capped run was cut at its second paragraph, in its second document,
\* and returned a chapter of each document; the run without a cap went on to
\* a third paragraph
C24_Witness ==
    /\ Done(1)
    /\ TraversalOver(2)
    /\ options[1].maxParagraphs = 2
    /\ returnedAtCap[1]
    /\ flowIdx[1] = 2
    /\ Len(result[1].chapters) = 2
    /\ Len(handlerCalls[2]) = 3

RECURSIVE Flattened(_)
\* the chunks of a sequence of insertChunks calls, in call order
Flattened(callSeq) ==
    IF callSeq = <<>> THEN <<>> ELSE Head(callSeq) \o Flattened(Tail(callSeq))

\* C27: when processBook has completed, the chunks handed to insertChunks
\* carry, in order, the indexes 0, 1, ..., totalChunks - 1; each holds
\* between 1 and CHUNK_SIZE paragraphs and each but the last CHUNK_SIZE; read
\* in index order their paragraphs are those with ids 1 to the number of
\* paragraphs of the book, in order; no insertChunks call carries more than
\* CHUNK_FLUSH_BATCH chunks.
C27_ChunksPartition ==
    run.pc = "done" =>
        LET sent == Flattened(run.inserted)
        IN  /\ Len(sent) = db.book.totalChunks
            /\ \A i \in 1..Len(sent) :
                  /\ sent[i].chunkIndex = i - 1
                  /\ Len(sent[i].paragraphs) \in 1..CHUNK_SIZE
                  /\ i < Len(sent) => Len(sent[i].paragraphs) = CHUNK_SIZE
                  /\ \A k \in 1..Len(sent[i].paragraphs) :
                        sent[i].paragraphs[k] = StoredParagraph(CHUNK_SIZE * (i - 1) + k)
            /\ run.paragraphCount > 0 =>
                  /\ Len(sent) > 0
                  /\ CHUNK_SIZE * (Len(sent) - 1) + Len(sent[Len(sent)].paragraphs)
                         = run.paragraphCount
            /\ run.paragraphCount = 0 => sent = <<>>
            /\ \A c \in 1..Len(run.inserted) :
                  Len(run.inserted[c]) \in 1..CHUNK_FLUSH_BATCH

\* a book of 401 paragraphs: two insertChunks calls with four chunks each
\* while the stream runs, a third one with the chunk of one paragraph
C27_Witness ==
    /\ run.pc = "done"
    /\ run.paragraphCount = 401
    /\ Len(run.inserted) = 3
    /\ Len(run.inserted[1]) = 4
    /\ Len(run.inserted[2]) = 4
    /\ Len(run.inserted[3]) = 1
    /\ Len(run.inserted[3][1].paragraphs) = 1
    /\ db.book.totalChunks = 9

\* the last status a run has written, "" for none
LastWritten(r) ==
    IF r.written = <<>> THEN "" ELSE r.written[Len(r.written)].status

\* no chunk is inserted before "processing" is written; "completed" is the
\* last status of its run, written with nothing left to insert and with
\* totalChunks the number of chunks the run inserted
StatusesInOrder ==
    /\ run.inserted # <<>> =>
          /\ run.written # <<>>
          /\ run.written[1].status = "processing"
    /\ \A i \in 1..Len(run.written) :
          run.written[i].status = "completed" =>
              /\ i = Len(run.written)
              /\ run.chunkBuffer = <<>>
              /\ run.chunkParagraphs = <<>>
              /\ run.written[i].withTotal
              /\ run.written[i].totalChunks = Len(Flattened(run.inserted))
    /\ run.pc = "done" => LastWritten(run) = "completed"

\* the run leaves its catch clause with the error
CatchLeft == run.pc = "catch" /\ run'.pc = "thrown"

\* C28: in a run of processBook on a book with a storage id, no chunk is
\* inserted before the status "processing" is written; "completed" is
\* written with nothing left in the buffer and with totalChunks the number
\* of chunks inserted, and it is the last status of the run; a run in which
\* a step between the two has thrown leaves with "failed" as the last
\* status it wrote.
C28_StatusOrder ==
    /\ []StatusesInOrder
    /\ [][CatchLeft => LastWritten(run') = "failed"]_vars

\* C28, amended: the same, but "failed" is the last status written only when
\* the book still exists at the catch clause; once the book has been
\* removed every status write throws, and the run leaves its catch clause
\* with the statuses it had written before.
C28_StatusOrderWhileBookExists ==
    /\ []StatusesInOrder
    /\ [][CatchLeft =>
              IF db.book.exists
              THEN /\ LastWritten(run') = "failed"
                   /\ db'.book.processingStatus = "failed"
              ELSE run'.written = run.written]_vars

\* the second insertChunks call of a run failed: four chunks are in the
\* table and the statuses written are "processing" and "failed"
C28_Witness ==
    /\ db.book.exists
    /\ run.pc = "thrown"
    /\ Len(run.inserted) = 1
    /\ Len(db.bookChunks) = 4
    /\ run.totalChunks = 5
    /\ Len(run.written) = 2
    /\ run.written[1].status = "processing"
    /\ run.written[2].status = "failed"

\* C29: once remove has committed, every scheduled deleteChunksBatch has
\* finished and no processBook run is under way, no bookChunks row of the
\* book is left.
C29_NoChunksLeft ==
    (/\ ~db.book.exists
     /\ db.scheduled = 0
     /\ run.pc \in {"idle", "thrown", "done"}) => db.bookChunks = <<>>

\* what only the owner of a book may be given
BookData == {"details", "url", "status", "chunks"}

\* C23: a caller who is not signed in or is not the owner of the book is
\* never given the book's details, file url, status or chunks, never
\* changes a table, the storage or the scheduler through a public function,
\* and a processBook run such a caller started writes no status and
\* inserts no chunk.
C23_OwnerOnly ==
    /\ \A a \in served :
          a.caller # "owner" => a.got \notin BookData /\ ~a.changed
    /\ run.caller \in Identities \ {"owner"} =>
          run.written = <<>> /\ run.inserted = <<>>

====
